---- MODULE Spec2Model ----
(***************************************************************************)
(* The ledger core of go-projects: BalanceService and TransactionService   *)
(* (internal/services) running on a MySQL/InnoDB store.                    *)
(*                                                                         *)
(* Several workers (goroutines serving requests) interleave their SQL      *)
(* statements.  A step is one statement that reads or writes rows other    *)
(* workers can see or wait for (an autocommit statement, a locking read,   *)
(* an insert, Commit), together with the statements after it that touch    *)
(* only what the worker's own sql.Tx holds.  A sql.Tx is a buffer of       *)
(* uncommitted writes plus the row locks it holds; Commit applies the      *)
(* buffer, the deferred tx.Rollback() of a failing call drops it.          *)
(* Statements outside a sql.Tx (s.db.QueryRow, s.db.Exec) run in           *)
(* autocommit mode: they read the committed rows and their writes commit   *)
(* at once.  A locking read that finds no row locks the gap of the index   *)
(* (REPEATABLE READ).  Amounts are integers (the smallest currency unit).  *)
(***************************************************************************)
EXTENDS Integers, Sequences, FiniteSets, TLC

\* ---------------------------------------------------------------- bounds
MaxCalls == 2          \* service calls started in one run
MaxAmount == 1         \* largest amount of a request
MaxInitBalance == 1    \* largest balance present before the first call
MaxFaults == 1         \* storage failures injected in one run

Procs == {"w1", "w2"}  \* concurrent workers
Accounts == {1, 2}     \* user ids
Amounts == 0..MaxAmount            \* req.Amount (0 is the invalid amount)
Deltas == (-MaxAmount)..MaxAmount  \* UpdateBalance's signed amount
TxnIds == 1..MaxCalls              \* AUTO_INCREMENT ids the run can hand out

\* ------------------------------------------------------ program constants
TransactionTypeCredit == "credit"
TransactionTypeDebit == "debit"
TransactionTypeTransfer == "transfer"
TransactionStatusPending == "pending"
TransactionStatusCompleted == "completed"
TransactionStatusFailed == "failed"
TransactionStatusRolledBack == "rolled_back"

\* from_user_id / to_user_id NULL
Null == 0
\* An unlocked sync.Mutex
Unlocked == "unlocked"

\* Outcomes of a call (the error a service method returns, by kind)
Ok == "ok"
ErrValidation == "validation"               \* amount must be greater than zero / same account
ErrInsufficient == "insufficient balance"
ErrStorage == "storage"                     \* a wrapped database/sql error
ErrNotFound == "transaction not found"
ErrAlreadyRolledBack == "transaction already rolled back"
ErrInvalidState == "only completed transactions can be rolled back"
ErrUnknownType == "unknown transaction type"
NoResult == "none"

VARIABLES
  \* the committed rows of the store
  balances,      \* balances: user_id -> amount, for the user_ids that have a row
  history,       \* balance_history, in insertion order
  transactions,  \* transactions: id -> row, for the ids that have a row
  nextId,        \* AUTO_INCREMENT counter of transactions
  \* concurrency control
  held,          \* held[p]: the row and gap locks of p's open sql.Tx
  mu,            \* BalanceService.mu: user_id -> holder, for the mutexes created
  \* each worker's call
  pc,            \* the statement the worker executes next
  req,           \* the request of the call
  loc,           \* the call's local variables
  tx,            \* the worker's sql.Tx: its uncommitted writes
  result,        \* what the call returned
  \* environment
  faults,        \* storage failures injected so far
  calls,         \* calls started so far
  \* history variables (observers; no step reads them to decide what to do)
  pre,           \* pre[p]: the committed rows when p's call started
  quiet,         \* quiet[p]: no other worker committed since p's call started
  sumDeltas,     \* per account, the sum of the deltas of committed mutations
  audit,         \* per transaction id, the balances before the original operation
  initial,       \* the balances before the first call of the run
  dropped,       \* history appends that failed so far (logged and not propagated)
  \* the logger
  log,           \* the "Balance discrepancy detected" warnings, in the order logged
  \* the store's clock
  clock          \* NOW() / CURRENT_TIMESTAMP, in whole seconds

vars == <<balances, history, transactions, nextId, held, mu, pc, req, loc, tx,
          result, faults, calls, pre, quiet, sumDeltas, audit, initial, dropped, log, clock>>

\* ---------------------------------------------------------------- helpers

NoTxn == [id |-> 0, from_user_id |-> Null, to_user_id |-> Null, amount |-> 0,
          type |-> "", status |-> "", created_at |-> 0]

\* A sql.Tx with nothing written
NoTx == [open |-> FALSE, bal |-> <<>>, hist |-> <<>>, txn |-> <<>>, deltas |-> <<>>]

\* A request: the call, its arguments, and (for a call that came in through a
\* handler) the decoded flag of the body and the caller the request context names
NoCaller == [ok |-> FALSE, user_id |-> 0, role |-> ""]
NoReq == [name |-> "", user_id |-> 0, to_user_id |-> 0, amount |-> 0, id |-> 0,
          target_time |-> 0, limit |-> 0, offset |-> 0, decoded |-> TRUE, caller |-> NoCaller]

NoLoc == [found |-> FALSE, currentBalance |-> 0, transactionID |-> 0,
          transaction |-> NoTxn, plan |-> <<>>, faulted |-> FALSE]

\* The amount GetBalance reports: the row's, or 0 for an account with no row
BalanceOf(b, a) == IF a \in DOMAIN b THEN b[a] ELSE 0

\* The rows a statement of p's sql.Tx sees: its own writes over the committed rows
BalanceView(p) == tx[p].bal @@ balances
TxnView(p) == tx[p].txn @@ transactions

\* LockFree as it would be if the read were a plain SELECT (no FOR UPDATE)
NoRowLock(p, key) == TRUE

\* A row lock is free for p when no other sql.Tx holds it
LockFree(p, key) == \A q \in Procs \ {p} : key \notin held[q]

\* The records of the primary index of balances: the committed rows and the
\* rows an open sql.Tx has inserted
IndexKeys == DOMAIN balances \cup UNION {DOMAIN tx[q].bal : q \in Procs}

\* A locking read that finds no row for key a locks the gap of the index that a
\* falls into (REPEATABLE READ, the server's default: the code sets no isolation
\* level); held[p] names the lock <<"gap", a>>.  It covers the key b when no
\* record of the index lies between a and b: the gap grows when a neighbouring
\* record goes away with a rolled-back sql.Tx, and once the holder has inserted a
\* the lock covers the gaps on both sides of it.
Covers(a, b) ==
  \A k \in IndexKeys \ {a, b} : ~((a < k /\ k < b) \/ (b < k /\ k < a))

\* q holds a gap lock that covers the key b
HoldsGapOver(q, b) == \E a \in Accounts : <<"gap", a>> \in held[q] /\ Covers(a, b)

\* An INSERT of key b goes through for p: no other sql.Tx holds the row (the
\* duplicate check waits for it) and, when the index has no such record, none
\* holds a lock on the gap (gap locks do not wait for each other, inserts wait
\* for them)
InsertFree(p, b) ==
  /\ LockFree(p, <<"balances", b>>)
  /\ b \notin IndexKeys => \A q \in Procs \ {p} : ~HoldsGapOver(q, b)

\* The storage may fail a statement while the run's failure budget lasts: the
\* statements (points) of a step that can fail, or "none"
FailPoints(points) == IF faults < MaxFaults THEN {"none"} \cup points ELSE {"none"}

RECURSIVE SumFor(_, _)
\* The sum of the deltas a sequence of <<account, delta>> applies to account a
SumFor(ds, a) ==
  IF ds = <<>> THEN 0
  ELSE (IF Head(ds)[1] = a THEN Head(ds)[2] ELSE 0) + SumFor(Tail(ds), a)

RECURSIVE SumChanges(_, _)
\* SELECT COALESCE(SUM(change_amount), 0) FROM balance_history WHERE user_id = a
SumChanges(h, a) ==
  IF h = <<>> THEN 0
  ELSE (IF Head(h).user_id = a THEN Head(h).change_amount ELSE 0) + SumChanges(Tail(h), a)

\* The accounts a transaction row names
Involved(t) == {t.from_user_id, t.to_user_id} \ {Null}

Snapshot == [balances |-> balances, history |-> history, transactions |-> transactions,
             log |-> log]

\* --------------------------------------------- what the services compute

\* The row Credit, Debit and Transfer insert: status pending, the source NULL for
\* a credit and the destination NULL for a debit
NewTransaction(r, id) ==
  [id |-> id,
   from_user_id |-> IF r.name = "Credit" THEN Null ELSE r.user_id,
   to_user_id |-> IF r.name = "Credit" THEN r.user_id
                  ELSE IF r.name = "Debit" THEN Null ELSE r.to_user_id,
   amount |-> r.amount,
   type |-> IF r.name = "Credit" THEN TransactionTypeCredit
            ELSE IF r.name = "Debit" THEN TransactionTypeDebit ELSE TransactionTypeTransfer,
   status |-> TransactionStatusPending,
   created_at |-> 0]   \* not in the INSERT's column list: the store fills it in

\* RequestDeltas as it would be if Transfer never credited the receiver
RequestDeltasSenderOnly(r) ==
  IF r.name = "Credit" THEN <<<<r.user_id, r.amount>>>>
  ELSE IF r.name \in {"Debit", "Transfer"} THEN <<<<r.user_id, -r.amount>>>>
  ELSE IF r.name = "UpdateBalance" THEN <<<<r.user_id, r.amount>>>>
  ELSE <<>>

\* The updateBalanceInTx calls of a request, in order, as <<user_id, amount>>
RequestDeltas(r) ==
  IF r.name = "Credit" THEN <<<<r.user_id, r.amount>>>>
  ELSE IF r.name = "Debit" THEN <<<<r.user_id, -r.amount>>>>
  ELSE IF r.name = "Transfer" THEN <<<<r.user_id, -r.amount>>, <<r.to_user_id, r.amount>>>>
  ELSE IF r.name = "UpdateBalance" THEN <<<<r.user_id, r.amount>>>>
  ELSE <<>>

\* Invalid as it would be without the same-account check of Transfer
InvalidAmountOnly(r) ==
  /\ r.name \in {"Credit", "Debit", "Transfer"}
  /\ r.amount <= 0

\* Invalid as it would be without the amount checks
InvalidSameAccountOnly(r) ==
  /\ r.name = "Transfer"
  /\ r.user_id = r.to_user_id

\* The checks before any statement: amount <= 0, and a transfer to the same account
Invalid(r) ==
  /\ r.name \in {"Credit", "Debit", "Transfer"}
  /\ \/ r.amount <= 0
     \/ r.name = "Transfer" /\ r.user_id = r.to_user_id

\* InitialAmount as it would be if GetBalance created the row with one unit
InitialAmountOne == 0 + 1

\* The amount of the row GetBalance creates for an account that has none
InitialAmount == 0

\* The balance updateBalanceInTx writes: currentBalance + amount
NewBalance(currentBalance, amount) == currentBalance + amount

\* Insufficient as it would be without the check under the lock
NeverInsufficient(newBalance) == FALSE

\* updateBalanceInTx refuses a write that would leave newBalance < 0
Insufficient(newBalance) == newBalance < 0

\* The advisory check of Debit and Transfer: balance.Amount < req.Amount
PreCheckFails(balance, amount) == balance < amount

\* The balance_history row of one balance write (transaction_id is always NULL;
\* created_at defaults to CURRENT_TIMESTAMP)
HistoryEntry(a, newBalance, amount, now) ==
  [user_id |-> a, balance |-> newBalance, change_amount |-> amount, created_at |-> now]

\* NextStatus as it would be if a rollback marked the row failed
NextStatusFailed(name) ==
  IF name = "Rollback" THEN TransactionStatusFailed ELSE TransactionStatusCompleted

\* The status the call's UPDATE transactions SET status = ? writes
NextStatus(name) ==
  IF name = "Rollback" THEN TransactionStatusRolledBack ELSE TransactionStatusCompleted

\* CompensatingDeltas as it would be if a transfer's reversal skipped the receiver
CompensatingDeltasSenderOnly(t) ==
  IF t.type = TransactionTypeCredit
    THEN IF t.to_user_id # Null THEN <<<<t.to_user_id, -t.amount>>>> ELSE <<>>
  ELSE IF t.from_user_id # Null THEN <<<<t.from_user_id, t.amount>>>>
  ELSE <<>>

\* The default branch of RollbackTransaction's switch: the row's type is none of
\* credit, debit and transfer
UnknownType(t) ==
  t.type \notin {TransactionTypeCredit, TransactionTypeDebit, TransactionTypeTransfer}

\* The balance changes RollbackTransaction applies, by the type of the row it
\* read; none for a row of unknown type, where the call returns an error
CompensatingDeltas(t) ==
  IF t.type = TransactionTypeCredit
    THEN IF t.to_user_id # Null THEN <<<<t.to_user_id, -t.amount>>>> ELSE <<>>
  ELSE IF t.type = TransactionTypeDebit
    THEN IF t.from_user_id # Null THEN <<<<t.from_user_id, t.amount>>>> ELSE <<>>
  ELSE IF t.type = TransactionTypeTransfer
    THEN IF t.from_user_id # Null /\ t.to_user_id # Null
           THEN <<<<t.from_user_id, t.amount>>, <<t.to_user_id, -t.amount>>>>
           ELSE <<>>
  ELSE <<>>

\* RollbackCheck as it would be without the two status checks
RollbackCheckNoStatus(t) == IF t = NoTxn THEN ErrNotFound ELSE Ok

\* The error RollbackTransaction returns for the row it read, Ok to go on
RollbackCheck(t) ==
  IF t = NoTxn THEN ErrNotFound
  ELSE IF t.status = TransactionStatusRolledBack THEN ErrAlreadyRolledBack
  ELSE IF t.status # TransactionStatusCompleted THEN ErrInvalidState
  ELSE Ok

\* ------------------------------------------------------------------- Init

\* The rows an earlier UpdateBalance(a, b[a]) on each fresh account leaves
InitHistory(b) ==
  LET e(a) == HistoryEntry(a, b[a], b[a], 0)
  IN  (IF 1 \in DOMAIN b THEN <<e(1)>> ELSE <<>>) \o (IF 2 \in DOMAIN b THEN <<e(2)>> ELSE <<>>)

\* Each account starts with no row, or with a row holding 1..MaxInitBalance
InitBalances ==
  UNION {[D -> 1..MaxInitBalance] : D \in SUBSET Accounts}

\* The store with the balances b and nothing else
Fresh(b) ==
  [balances |-> b, history |-> InitHistory(b), transactions |-> <<>>, nextId |-> 1,
   audit |-> <<>>]

RECURSIVE ApplyDeltas(_, _, _)
\* The rows after the updateBalanceInTx calls of plan, run alone at time now and
\* committed
ApplyDeltas(s, plan, now) ==
  IF plan = <<>> THEN s
  ELSE LET a == Head(plan)[1]
           amount == Head(plan)[2]
           newBalance == NewBalance(BalanceOf(s.balances, a), amount)
       IN  ApplyDeltas([s EXCEPT !.balances = (a :> newBalance) @@ @,
                                 !.history = Append(@, HistoryEntry(a, newBalance, amount, now))],
                       Tail(plan), now)

\* The store after one earlier call r that ran alone on b and returned success
AfterCall(b, r) ==
  LET t == [NewTransaction(r, 1) EXCEPT !.status = NextStatus(r.name)]
  IN  [ApplyDeltas(Fresh(b), RequestDeltas(r), 0) EXCEPT
         !.transactions = (1 :> t),
         !.nextId = 2,
         !.audit = (1 :> [before |-> [a \in Involved(t) |-> BalanceOf(b, a)], clean |-> TRUE,
                          rollbacks |-> 0])]

\* The Credit, Debit and Transfer requests that succeed when run alone on b
EarlierCalls(b) ==
  {r \in [name : {"Credit", "Debit", "Transfer"}, user_id : Accounts,
          to_user_id : Accounts \cup {0}, amount : 1..MaxAmount, id : {0},
          target_time : {0}, limit : {0}, offset : {0}, decoded : {TRUE},
          caller : {NoCaller}] :
     /\ (r.name = "Transfer") = (r.to_user_id # 0)
     /\ ~Invalid(r)
     /\ r.name # "Credit" => ~PreCheckFails(BalanceOf(b, r.user_id), r.amount)}

\* The stores a run starts from: balance rows only, or those plus one earlier call
Stores ==
  {Fresh(b) : b \in InitBalances}
    \cup UNION {{AfterCall(b, r) : r \in EarlierCalls(b)} : b \in InitBalances}

InitWith(s, f, now) ==
  /\ balances = s.balances
  /\ history = s.history
  /\ transactions = s.transactions
  /\ nextId = s.nextId
  /\ held = [p \in Procs |-> {}]
  /\ mu = <<>>
  /\ pc = [p \in Procs |-> "idle"]
  /\ req = [p \in Procs |-> NoReq]
  /\ loc = [p \in Procs |-> NoLoc]
  /\ tx = [p \in Procs |-> NoTx]
  /\ result = [p \in Procs |-> [status |-> NoResult, transaction |-> NoTxn, amount |-> 0,
                               rows |-> <<>>]]
  /\ faults = f
  /\ calls = 0
  /\ pre = [p \in Procs |-> [balances |-> s.balances, history |-> s.history,
                             transactions |-> s.transactions, log |-> <<>>]]
  /\ quiet = [p \in Procs |-> TRUE]
  /\ sumDeltas = [a \in Accounts |-> 0]
  /\ audit = s.audit
  /\ initial = s.balances
  /\ dropped = 0
  /\ log = <<>>
  /\ clock = now

Init == \E s \in Stores : InitWith(s, 0, 0)

\* ------------------------------------------------------------ call frames

\* A return of p's call: the deferred tx.Rollback() drops what the sql.Tx still
\* holds (nothing after a Commit), the deferred mu.Unlock() frees the mutex, and
\* the locals go away (the model keeps the id the call inserted and whether an
\* injected failure hit it).
Return(p, status, t, amt, fail) ==
  /\ pc' = [pc EXCEPT ![p] = "done"]
  /\ result' = [result EXCEPT ![p] = [status |-> status, transaction |-> t, amount |-> amt,
                                       rows |-> <<>>]]
  /\ tx' = [tx EXCEPT ![p] = NoTx]
  /\ held' = [held EXCEPT ![p] = {}]
  /\ mu' = [a \in DOMAIN mu |-> IF mu[a] = p THEN Unlocked ELSE mu[a]]
  /\ loc' = [loc EXCEPT ![p] = [NoLoc EXCEPT !.transactionID = loc[p].transactionID,
                                             !.faulted = loc[p].faulted \/ fail]]

\* A statement fails: the call returns a storage error
StorageFailure(p) == Return(p, ErrStorage, NoTxn, 0, TRUE)

Inject(fail) == faults' = faults + (IF fail THEN 1 ELSE 0)

\* A worker takes the next request r; first is the first statement of a valid one
Enter(p, r, first) ==
  /\ pc[p] \in {"idle", "done"}
  /\ calls < MaxCalls
  /\ calls' = calls + 1
  /\ req' = [req EXCEPT ![p] = r]
  /\ pre' = [pre EXCEPT ![p] = Snapshot]
  /\ quiet' = [quiet EXCEPT ![p] = TRUE]
  /\ result' = [result EXCEPT ![p] =
                  [status |-> IF Invalid(r) THEN ErrValidation ELSE NoResult,
                   transaction |-> NoTxn, amount |-> 0, rows |-> <<>>]]
  /\ pc' = [pc EXCEPT ![p] = IF Invalid(r) THEN "done" ELSE first]
  /\ loc' = [loc EXCEPT ![p] = [NoLoc EXCEPT !.plan = IF Invalid(r) THEN <<>> ELSE RequestDeltas(r)]]
  /\ UNCHANGED <<balances, history, transactions, nextId, held, mu, tx, faults,
                 sumDeltas, audit, initial, dropped, log, clock>>

\* TransactionService.Credit: the amount check, then the atomic unit
Credit(p) ==
  \E u \in Accounts, amt \in Amounts :
    Enter(p, [NoReq EXCEPT !.name = "Credit", !.user_id = u, !.amount = amt], "begin")

\* TransactionService.Debit: the amount check, then the advisory balance check
Debit(p) ==
  \E u \in Accounts, amt \in Amounts :
    Enter(p, [NoReq EXCEPT !.name = "Debit", !.user_id = u, !.amount = amt], "get_balance")

\* TransactionService.Transfer: the amount and same-account checks, then the
\* advisory balance check
Transfer(p) ==
  \E u \in Accounts, v \in Accounts, amt \in Amounts :
    Enter(p, [NoReq EXCEPT !.name = "Transfer", !.user_id = u, !.to_user_id = v, !.amount = amt],
          "get_balance")

\* TransactionService.RollbackTransaction: starts by reading the transaction
RollbackTransaction(p) ==
  \E id \in TxnIds :
    Enter(p, [NoReq EXCEPT !.name = "Rollback", !.id = id], "get_transaction")

\* BalanceService.UpdateBalance: starts by taking the account's mutex
UpdateBalance(p) ==
  \E u \in Accounts, d \in Deltas :
    Enter(p, [NoReq EXCEPT !.name = "UpdateBalance", !.user_id = u, !.amount = d], "mutex")

\* BalanceService.GetBalance called on its own (the balance handler)
GetBalance(p) ==
  \E u \in Accounts :
    Enter(p, [NoReq EXCEPT !.name = "GetBalance", !.user_id = u], "get_balance")

\* BalanceService.ReconcileBalance: starts by reading the balance with GetBalance
ReconcileBalance(p) ==
  \E u \in Accounts :
    Enter(p, [NoReq EXCEPT !.name = "ReconcileBalance", !.user_id = u], "get_balance")

\* ------------------------------------------------- BalanceService.GetBalance

\* SELECT user_id, amount, last_updated_at FROM balances WHERE user_id = ?
\* (autocommit, a plain read: it sees the committed row and takes no lock),
\* then, in Debit and Transfer, the advisory check on the amount read
GetBalanceSelect(p) ==
  /\ pc[p] = "get_balance"
  /\ \E fail \in FailPoints({"select"}) :
       /\ Inject(fail # "none")
       /\ LET a == req[p].user_id IN
          IF fail # "none" THEN StorageFailure(p)
          ELSE IF a \notin DOMAIN balances
            THEN /\ pc' = [pc EXCEPT ![p] = "init_balance"]
                 /\ UNCHANGED <<result, tx, held, mu, loc>>
          ELSE IF req[p].name = "GetBalance"
            THEN Return(p, Ok, NoTxn, balances[a], FALSE)
          ELSE IF req[p].name = "ReconcileBalance"
            THEN /\ loc' = [loc EXCEPT ![p].currentBalance = balances[a]]
                 /\ pc' = [pc EXCEPT ![p] = "calculate"]
                 /\ UNCHANGED <<result, tx, held, mu>>
          ELSE IF PreCheckFails(balances[a], req[p].amount)
            THEN Return(p, ErrInsufficient, NoTxn, 0, FALSE)
          ELSE /\ pc' = [pc EXCEPT ![p] = "begin"]
               /\ UNCHANGED <<result, tx, held, mu, loc>>
  /\ UNCHANGED <<balances, history, transactions, nextId, req, calls, pre, quiet,
                 sumDeltas, audit, initial, dropped, log, clock>>

\* INSERT INTO balances (user_id, amount) VALUES (?, 0)   (autocommit), then, in
\* Debit and Transfer, the advisory check on the amount 0.
\* The insert waits for a sql.Tx that holds the key or a lock on the key's gap,
\* and fails on a duplicate key.
GetBalanceInsert(p) ==
  /\ pc[p] = "init_balance"
  /\ InsertFree(p, req[p].user_id)
  /\ \E fail \in FailPoints({"insert"}) :
       /\ Inject(fail # "none")
       /\ LET a == req[p].user_id IN
          IF fail # "none" THEN StorageFailure(p) /\ UNCHANGED <<balances, quiet>>
          ELSE IF a \in DOMAIN balances
            THEN \* Error 1062: another call created the row first
                 /\ Return(p, ErrStorage, NoTxn, 0, FALSE)
                 /\ UNCHANGED <<balances, quiet>>
          ELSE /\ balances' = (a :> InitialAmount) @@ balances
               /\ quiet' = [q \in Procs |-> q = p /\ quiet[q]]
               /\ IF req[p].name = "GetBalance"
                    THEN Return(p, Ok, NoTxn, 0, FALSE)
                  ELSE IF req[p].name = "ReconcileBalance"
                    THEN /\ loc' = [loc EXCEPT ![p].currentBalance = 0]
                         /\ pc' = [pc EXCEPT ![p] = "calculate"]
                         /\ UNCHANGED <<result, tx, held, mu>>
                  ELSE IF PreCheckFails(0, req[p].amount)
                    THEN Return(p, ErrInsufficient, NoTxn, 0, FALSE)
                  ELSE /\ pc' = [pc EXCEPT ![p] = "begin"]
                       /\ UNCHANGED <<result, tx, held, mu, loc>>
  /\ UNCHANGED <<history, transactions, nextId, req, calls, pre, sumDeltas, audit, initial, dropped, log, clock>>

\* ------------------------------------------- BalanceService.ReconcileBalance

\* Discrepancy as it would be if only a balance above the history sum counted
DiscrepancyAbove(currentBalance, calculatedBalance) == currentBalance > calculatedBalance

\* The discrepancy check of ReconcileBalance: currentBalance.Amount != calculatedBalance
Discrepancy(currentBalance, calculatedBalance) == currentBalance # calculatedBalance

\* ReconcileResult as it would be if a discrepancy were returned as an error
ReconcileResultStrict(discrepancy) == IF discrepancy THEN ErrStorage ELSE Ok

\* What ReconcileBalance returns after the comparison: nil, whatever it found
ReconcileResult(discrepancy) == Ok

\* CalculateBalanceFromHistory (autocommit, a plain read of the committed
\* history), then the comparison with the amount GetBalance returned and the
\* warning; ReconcileBalance returns nil with or without a discrepancy
CalculateBalanceFromHistory(p) ==
  /\ pc[p] = "calculate"
  /\ \E fail \in FailPoints({"select"}) :
       /\ Inject(fail # "none")
       /\ LET a == req[p].user_id
              calculatedBalance == SumChanges(history, a)
          IN  IF fail # "none" THEN StorageFailure(p) /\ UNCHANGED log
              ELSE /\ log' = IF Discrepancy(loc[p].currentBalance, calculatedBalance)
                               THEN Append(log, [worker |-> p, user_id |-> a])
                               ELSE log
                   /\ Return(p, ReconcileResult(Discrepancy(loc[p].currentBalance, calculatedBalance)),
                             NoTxn, 0, FALSE)
  /\ UNCHANGED <<balances, history, transactions, nextId, req, calls, pre, quiet,
                 sumDeltas, audit, initial, dropped, clock>>

\* ---------------------------------------------- BalanceService.UpdateBalance

\* MutexFree as it would be if every getMutex call stored a new mutex
MutexAlwaysFree(a) == TRUE

\* mu.Lock() goes through when the account's mutex does not exist yet
\* (LoadOrStore then creates it) or is unlocked
MutexFree(a) == a \in DOMAIN mu => mu[a] = Unlocked

\* getMutex(userID) (LoadOrStore creates the mutex on first use) and mu.Lock()
getMutex(p) ==
  /\ pc[p] = "mutex"
  /\ LET a == req[p].user_id IN
       /\ MutexFree(a)
       /\ mu' = (a :> p) @@ mu
  /\ pc' = [pc EXCEPT ![p] = "begin"]
  /\ UNCHANGED <<balances, history, transactions, nextId, held, req, loc, tx, result,
                 faults, calls, pre, quiet, sumDeltas, audit, initial, dropped, log, clock>>

\* ------------------------------------------------------------ the atomic unit

\* s.db.Begin() and, in RollbackTransaction, the switch on the type of the row
\* read: for a type it does not know the call returns an error and the deferred
\* tx.Rollback() ends the sql.Tx, in which no statement ran
Begin(p) ==
  /\ pc[p] = "begin"
  /\ \E fail \in FailPoints({"begin"}) :
       /\ Inject(fail # "none")
       /\ IF fail # "none" THEN StorageFailure(p)
          ELSE IF req[p].name = "Rollback" /\ UnknownType(loc[p].transaction)
            THEN Return(p, ErrUnknownType, NoTxn, 0, FALSE)
          ELSE /\ tx' = [tx EXCEPT ![p] = [NoTx EXCEPT !.open = TRUE]]
               /\ pc' = [pc EXCEPT ![p] =
                           IF req[p].name \in {"Credit", "Debit", "Transfer"} THEN "insert_transaction"
                           ELSE IF loc[p].plan = <<>> THEN "set_status"
                           ELSE "updateBalanceInTx"]
               /\ UNCHANGED <<result, held, mu, loc>>
  /\ UNCHANGED <<balances, history, transactions, nextId, req, calls, pre, quiet,
                 sumDeltas, audit, initial, dropped, log, clock>>

\* The row an INSERT of t stores at time now: created_at DEFAULT CURRENT_TIMESTAMP
Inserted(t, now) == [t EXCEPT !.created_at = now]

\* INSERT INTO transactions (...) VALUES (..., 'pending') and LastInsertId().
\* The AUTO_INCREMENT value is used up even if the sql.Tx is rolled back later.
InsertTransaction(p) ==
  /\ pc[p] = "insert_transaction"
  /\ \E fail \in FailPoints({"insert"}) :
       /\ Inject(fail # "none")
       /\ IF fail # "none" THEN StorageFailure(p) /\ UNCHANGED nextId
          ELSE /\ nextId' = nextId + 1
               /\ tx' = [tx EXCEPT ![p].txn = (nextId :> Inserted(NewTransaction(req[p], nextId), clock)) @@ @]
               /\ held' = [held EXCEPT ![p] = @ \cup {<<"transactions", nextId>>}]
               /\ loc' = [loc EXCEPT ![p].transactionID = nextId]
               /\ pc' = [pc EXCEPT ![p] = "updateBalanceInTx"]
               /\ UNCHANGED <<result, mu>>
  /\ UNCHANGED <<balances, history, transactions, req, calls, pre, quiet,
                 sumDeltas, audit, initial, dropped, log, clock>>

\* Written as it would be if updateBalanceInTx wrote no history row
WrittenWithoutHistory(t, a, newBalance, amount, historyFails) ==
  [t EXCEPT !.bal = (a :> newBalance) @@ @,
            !.deltas = Append(@, <<a, amount>>)]

\* Written as it would be if the history row carried the balance read, not the
\* balance written
WrittenStaleBalance(t, a, newBalance, amount, historyFails) ==
  [t EXCEPT !.bal = (a :> newBalance) @@ @,
            !.deltas = Append(@, <<a, amount>>),
            !.hist = IF historyFails THEN @
                    ELSE Append(@, HistoryEntry(a, newBalance - amount, amount, clock))]

\* The sql.Tx after one balance write of updateBalanceInTx and its history
\* insert; a failed history insert is logged and dropped (the function still
\* returns nil)
Written(t, a, newBalance, amount, historyFails) ==
  [t EXCEPT !.bal = (a :> newBalance) @@ @,
            !.deltas = Append(@, <<a, amount>>),
            !.hist = IF historyFails THEN @
                    ELSE Append(@, HistoryEntry(a, newBalance, amount, clock))]

\* The statement after an updateBalanceInTx call that returned nil
AfterUpdate(name, rest) ==
  IF rest # <<>> THEN "updateBalanceInTx"
  ELSE IF name = "UpdateBalance" THEN "commit"
  ELSE "set_status"

\* Propagated as it would be if a failed history insert were returned too
PropagatedAll(fail) == fail # "none"

\* The failed statements of updateBalanceInTx whose error it returns: the
\* locking SELECT, the UPDATE and the INSERT of the balances row; a failed INSERT
\* INTO balance_history is logged as a warning only
Propagated(fail) == fail \in {"select", "update", "insert"}

\* updateBalanceInTx: SELECT amount FROM balances WHERE user_id = ? FOR UPDATE,
\* the check newBalance < 0 and, when the row exists, UPDATE balances and
\* INSERT INTO balance_history.  The locking read waits while another sql.Tx
\* holds the row, reads the latest row and keeps it locked until the sql.Tx
\* ends; the statements after it touch only what this sql.Tx holds.  With no row
\* the read locks the gap the key falls into, currentBalance counts as 0 and the
\* INSERT follows.
updateBalanceInTx(p) ==
  /\ pc[p] = "updateBalanceInTx"
  /\ LET a == Head(loc[p].plan)[1]
         amount == Head(loc[p].plan)[2]
         rest == Tail(loc[p].plan)
         found == a \in DOMAIN BalanceView(p)
         currentBalance == IF found THEN BalanceView(p)[a] ELSE 0
         newBalance == NewBalance(currentBalance, amount)
     IN
       /\ LockFree(p, <<"balances", a>>)
       /\ \E fail \in FailPoints({"select", "update", "history"}) :
            /\ fail \in {"update", "history"} => found /\ ~Insufficient(newBalance)
            /\ Inject(fail # "none")
            /\ dropped' = dropped + (IF fail = "history" THEN 1 ELSE 0)
            /\ IF Propagated(fail) THEN StorageFailure(p)
               ELSE IF Insufficient(newBalance)
                 THEN Return(p, ErrInsufficient, NoTxn, 0, FALSE)
               ELSE IF ~found
                 THEN /\ loc' = [loc EXCEPT ![p].found = FALSE, ![p].currentBalance = 0]
                      /\ held' = [held EXCEPT ![p] = @ \cup {<<"gap", a>>}]
                      /\ pc' = [pc EXCEPT ![p] = "insert_balance"]
                      /\ UNCHANGED <<result, tx, mu>>
               ELSE /\ held' = [held EXCEPT ![p] = @ \cup {<<"balances", a>>}]
                    /\ tx' = [tx EXCEPT ![p] = Written(@, a, newBalance, amount, fail = "history")]
                    /\ loc' = [loc EXCEPT ![p].plan = rest,
                                          ![p].faulted = @ \/ fail = "history"]
                    /\ pc' = [pc EXCEPT ![p] = AfterUpdate(req[p].name, rest)]
                    /\ UNCHANGED <<result, mu>>
  /\ UNCHANGED <<balances, history, transactions, nextId, req, calls, pre, quiet,
                 sumDeltas, audit, initial, log, clock>>

\* NewRowBalance as it would be if the row were created empty
NewRowBalanceZero(amount) == 0

\* updateBalanceInTx, no row: newBalance := amount
NewRowBalance(amount) == amount

\* updateBalanceInTx, no row: INSERT INTO balances (user_id, amount) VALUES (?, newBalance)
\* and INSERT INTO balance_history.  The insert waits for a sql.Tx that holds
\* the key or a lock on the key's gap, and fails on a duplicate key.
InsertBalanceRow(p) ==
  /\ pc[p] = "insert_balance"
  /\ LET a == Head(loc[p].plan)[1]
         amount == Head(loc[p].plan)[2]
         rest == Tail(loc[p].plan)
         duplicate == a \in DOMAIN BalanceView(p)
     IN
       /\ InsertFree(p, a)
       /\ \E fail \in FailPoints({"insert", "history"}) :
            /\ fail = "history" => ~duplicate
            /\ Inject(fail # "none")
            /\ dropped' = dropped + (IF fail = "history" THEN 1 ELSE 0)
            /\ IF Propagated(fail) THEN StorageFailure(p)
               ELSE IF duplicate
                 THEN \* Error 1062: another call created the row first
                      Return(p, ErrStorage, NoTxn, 0, FALSE)
               ELSE /\ held' = [held EXCEPT ![p] = @ \cup {<<"balances", a>>}]
                    /\ tx' = [tx EXCEPT ![p] = Written(@, a, NewRowBalance(amount), amount, fail = "history")]
                    /\ loc' = [loc EXCEPT ![p].plan = rest,
                                          ![p].faulted = @ \/ fail = "history"]
                    /\ pc' = [pc EXCEPT ![p] = AfterUpdate(req[p].name, rest)]
                    /\ UNCHANGED <<result, mu>>
  /\ UNCHANGED <<balances, history, transactions, nextId, req, calls, pre, quiet,
                 sumDeltas, audit, initial, log, clock>>

\* UpdatedRow as it would be if created_at were declared ON UPDATE CURRENT_TIMESTAMP
UpdatedRowTouched(row, status, now) == [row EXCEPT !.status = status, !.created_at = now]

\* The row after UPDATE transactions SET status = ? at time now: status is the
\* only column assigned, and created_at has no ON UPDATE clause
UpdatedRow(row, status, now) == [row EXCEPT !.status = status]

\* UPDATE transactions SET status = ? WHERE id = ?   (locks the row it updates)
SetStatus(p) ==
  /\ pc[p] = "set_status"
  /\ LET id == IF req[p].name = "Rollback" THEN req[p].id ELSE loc[p].transactionID IN
       /\ LockFree(p, <<"transactions", id>>)
       /\ \E fail \in FailPoints({"update"}) :
            /\ Inject(fail # "none")
            /\ IF fail # "none" THEN StorageFailure(p)
               ELSE /\ tx' = [tx EXCEPT ![p].txn =
                                IF id \in DOMAIN TxnView(p)
                                  THEN (id :> UpdatedRow(TxnView(p)[id], NextStatus(req[p].name), clock)) @@ @
                                  ELSE @]
                    /\ held' = [held EXCEPT ![p] = @ \cup {<<"transactions", id>>}]
                    /\ pc' = [pc EXCEPT ![p] = "commit"]
                    /\ UNCHANGED <<result, mu, loc>>
  /\ UNCHANGED <<balances, history, transactions, nextId, req, calls, pre, quiet,
                 sumDeltas, audit, initial, dropped, log, clock>>

\* What a Commit of p's sql.Tx records about each transaction id: a new row's
\* entry holds the balances of its accounts before the operation; an entry stays
\* clean until a commit other than the first rollback of that transaction
\* touches one of its accounts; rollbacks counts the committed rollbacks of it.
AuditAfter(p) ==
  LET touched == DOMAIN tx[p].bal
      created == DOMAIN tx[p].txn \ DOMAIN transactions
      firstRollback(j) == /\ req[p].name = "Rollback"
                          /\ req[p].id = j
                          /\ transactions[j].status = TransactionStatusCompleted
      old == [j \in DOMAIN audit |->
                [audit[j] EXCEPT
                   !.clean = @ /\ (Involved(transactions[j]) \cap touched = {} \/ firstRollback(j)),
                   !.rollbacks = @ + (IF req[p].name = "Rollback" /\ req[p].id = j THEN 1 ELSE 0)]]
      new == [j \in created |->
                [before |-> [a \in Involved(tx[p].txn[j]) |-> BalanceOf(balances, a)],
                 clean |-> TRUE, rollbacks |-> 0]]
  IN  new @@ old

\* CommittedHistory as it would be if a commit replaced the table's rows
CommittedHistoryReplaced(h, added) == added

\* balance_history after a Commit: the rows the sql.Tx inserted follow the rows
\* committed before (no statement updates or deletes a balance_history row)
CommittedHistory(h, added) == h \o added

\* tx.Commit(): the writes of the sql.Tx become the committed rows, all at once,
\* and its locks are released.  A failed Commit leaves nothing behind.
Commit(p) ==
  /\ pc[p] = "commit"
  /\ \E fail \in FailPoints({"commit"}) :
       /\ Inject(fail # "none")
       /\ IF fail # "none"
            THEN /\ StorageFailure(p)
                 /\ UNCHANGED <<balances, history, transactions, quiet, sumDeltas, audit>>
            ELSE /\ balances' = tx[p].bal @@ balances
                 /\ history' = CommittedHistory(history, tx[p].hist)
                 /\ transactions' = tx[p].txn @@ transactions
                 /\ sumDeltas' = [a \in Accounts |-> sumDeltas[a] + SumFor(tx[p].deltas, a)]
                 /\ audit' = AuditAfter(p)
                 /\ quiet' = [q \in Procs |-> q = p /\ quiet[q]]
                 /\ IF req[p].name \in {"Credit", "Debit", "Transfer"}
                      THEN /\ pc' = [pc EXCEPT ![p] = "read_back"]
                           /\ tx' = [tx EXCEPT ![p] = NoTx]
                           /\ held' = [held EXCEPT ![p] = {}]
                           /\ UNCHANGED <<result, mu, loc>>
                      ELSE Return(p, Ok, NoTxn, 0, FALSE)
  /\ UNCHANGED <<nextId, req, calls, pre, initial, dropped, log, clock>>

\* GetTransactionByID as it would be if the read saw the uncommitted rows of
\* other sessions
GetTransactionByIDDirty(id) ==
  IF \E q \in Procs : id \in DOMAIN tx[q].txn
    THEN LET q == CHOOSE q \in Procs : id \in DOMAIN tx[q].txn IN tx[q].txn[id]
  ELSE IF id \in DOMAIN transactions THEN transactions[id]
  ELSE NoTxn

\* GetTransactionByID: SELECT ... FROM transactions WHERE id = ?  (autocommit,
\* a plain read of the committed row)
GetTransactionByID(id) ==
  IF id \in DOMAIN transactions THEN transactions[id] ELSE NoTxn

\* Credit, Debit and Transfer after their Commit: read the row back and return it
ReadBack(p) ==
  /\ pc[p] = "read_back"
  /\ \E fail \in FailPoints({"select"}) :
       /\ Inject(fail # "none")
       /\ LET t == GetTransactionByID(loc[p].transactionID) IN
          IF fail # "none" THEN StorageFailure(p)
          ELSE IF t = NoTxn THEN Return(p, ErrNotFound, NoTxn, 0, FALSE)
          ELSE Return(p, Ok, t, 0, FALSE)
  /\ UNCHANGED <<balances, history, transactions, nextId, req, calls, pre, quiet,
                 sumDeltas, audit, initial, dropped, log, clock>>

\* RollbackTransaction before its atomic unit: read the row, check its status
GetTransaction(p) ==
  /\ pc[p] = "get_transaction"
  /\ \E fail \in FailPoints({"select"}) :
       /\ Inject(fail # "none")
       /\ LET t == GetTransactionByID(req[p].id) IN
          IF fail # "none" THEN StorageFailure(p)
          ELSE IF RollbackCheck(t) # Ok
            THEN Return(p, RollbackCheck(t), NoTxn, 0, FALSE)
          ELSE /\ loc' = [loc EXCEPT ![p].transaction = t, ![p].plan = CompensatingDeltas(t)]
               /\ pc' = [pc EXCEPT ![p] = "begin"]
               /\ UNCHANGED <<result, tx, held, mu>>
  /\ UNCHANGED <<balances, history, transactions, nextId, req, calls, pre, quiet,
                 sumDeltas, audit, initial, dropped, log, clock>>

\* ------------------------------------------------------------ lock waits

\* The row lock p's next statement needs
WantedKey(p) ==
  IF pc[p] = "set_status"
    THEN <<"transactions", IF req[p].name = "Rollback" THEN req[p].id ELSE loc[p].transactionID>>
  ELSE IF pc[p] \in {"updateBalanceInTx", "insert_balance"}
    THEN <<"balances", Head(loc[p].plan)[1]>>
  ELSE <<"none", 0>>

\* p's next statement waits for a lock of q's sql.Tx: the row lock it needs, or
\* a gap lock over the key it is about to insert
BlockedBy(p, q) ==
  \/ WantedKey(p)[1] # "none" /\ WantedKey(p) \in held[q]
  \/ /\ pc[p] = "insert_balance"
     /\ Head(loc[p].plan)[1] \notin IndexKeys
     /\ HoldsGapOver(q, Head(loc[p].plan)[1])

\* Deadlocked as it would be if the database never ended a lock wait
NeverDeadlocked(p) == FALSE

\* p's sql.Tx waits for a row lock of a sql.Tx that waits for a row lock of p's
Deadlocked(p) ==
  \E q \in Procs \ {p} : BlockedBy(p, q) /\ BlockedBy(q, p)

\* Two sql.Tx each wait for a row the other holds.  InnoDB ends one of them
\* with an error (1213 on detection, 1205 on lock wait timeout): that statement
\* fails and the call returns a storage error.
DeadlockVictim(p) ==
  /\ Deadlocked(p)
  /\ Return(p, ErrStorage, NoTxn, 0, FALSE)
  /\ UNCHANGED <<balances, history, transactions, nextId, req, faults, calls,
                 pre, quiet, sumDeltas, audit, initial, dropped, log, clock>>

\* ------------------------------------------------------------------- Next

Step(p) ==
  \/ GetBalanceSelect(p)
  \/ GetBalanceInsert(p)
  \/ getMutex(p)
  \/ Begin(p)
  \/ InsertTransaction(p)
  \/ updateBalanceInTx(p)
  \/ InsertBalanceRow(p)
  \/ SetStatus(p)
  \/ Commit(p)
  \/ ReadBack(p)
  \/ GetTransaction(p)
  \/ DeadlockVictim(p)

Call(p) ==
  \/ Credit(p)
  \/ Debit(p)
  \/ Transfer(p)
  \/ RollbackTransaction(p)
  \/ UpdateBalance(p)
  \/ GetBalance(p)

Next == \E p \in Procs : Call(p) \/ Step(p)

Spec == Init /\ [][Next]_vars

\* ---------------------- BalanceService on its own: updates and readers

\* UpdateBalance, GetBalance and ReconcileBalance calls from the stores of Init
NextBalance ==
  \E p \in Procs :
    \/ UpdateBalance(p)
    \/ GetBalance(p)
    \/ ReconcileBalance(p)
    \/ GetBalanceSelect(p)
    \/ GetBalanceInsert(p)
    \/ getMutex(p)
    \/ Begin(p)
    \/ updateBalanceInTx(p)
    \/ InsertBalanceRow(p)
    \/ Commit(p)
    \/ CalculateBalanceFromHistory(p)
    \/ DeadlockVictim(p)

SpecBalance == Init /\ [][NextBalance]_vars

\* ------------------------------------------ BalanceService.GetBalanceAtTime

MaxTime == 3    \* the latest second of the store's clock
MaxRows == 2    \* history rows present before the first call
Times == 0..MaxTime

\* EntriesUpTo as it would be with created_at < ? in the WHERE clause
EntriesBefore(h, a, targetTime) ==
  {i \in 1..Len(h) : h[i].user_id = a /\ h[i].created_at < targetTime}

\* WHERE user_id = ? AND created_at <= ?
EntriesUpTo(h, a, targetTime) ==
  {i \in 1..Len(h) : h[i].user_id = a /\ h[i].created_at <= targetTime}

\* ORDER BY created_at DESC LIMIT 1: the rows the query may return.  created_at
\* has a resolution of one second and the query names no further sort key, so
\* any of the rows of the latest second may come first.
FirstByCreatedAtDesc(h, rows) ==
  {i \in rows : \A j \in rows : h[j].created_at <= h[i].created_at}

\* BalanceService.GetBalanceAtTime: one SELECT
GetBalanceAtTime(p) ==
  \E u \in Accounts, t \in Times :
    Enter(p, [NoReq EXCEPT !.name = "GetBalanceAtTime", !.user_id = u, !.target_time = t],
          "balance_at_time")

\* SELECT balance FROM balance_history WHERE user_id = ? AND created_at <= ?
\* ORDER BY created_at DESC LIMIT 1   (autocommit); sql.ErrNoRows gives 0, nil
SelectBalanceAtTime(p) ==
  /\ pc[p] = "balance_at_time"
  /\ \E fail \in FailPoints({"select"}) :
       /\ Inject(fail # "none")
       /\ LET rows == EntriesUpTo(history, req[p].user_id, req[p].target_time) IN
          IF fail # "none" THEN StorageFailure(p)
          ELSE IF rows = {} THEN Return(p, Ok, NoTxn, 0, FALSE)
          ELSE \E i \in FirstByCreatedAtDesc(history, rows) :
                 Return(p, Ok, NoTxn, history[i].balance, FALSE)
  /\ UNCHANGED <<balances, history, transactions, nextId, req, calls, pre, quiet,
                 sumDeltas, audit, initial, dropped, log, clock>>

\* A second passes on the store's clock
Tick ==
  /\ clock < MaxTime
  /\ clock' = clock + 1
  /\ UNCHANGED <<balances, history, transactions, nextId, held, mu, pc, req, loc, tx,
                 result, faults, calls, pre, quiet, sumDeltas, audit, initial, dropped, log>>

RECURSIVE ApplyStamped(_, _)
\* The rows after earlier UpdateBalance calls <<user_id, amount, time>>, each run
\* alone at its time and committed
ApplyStamped(s, stamped) ==
  IF stamped = <<>> THEN s
  ELSE ApplyStamped(ApplyDeltas(s, <<<<Head(stamped)[1], Head(stamped)[2]>>>>, Head(stamped)[3]),
                    Tail(stamped))

\* Up to MaxRows earlier UpdateBalance calls that succeeded, in the order of
\* their times (the clock does not run backwards)
StampedPlans ==
  {st \in UNION {[1..n -> Accounts \X (1..MaxAmount) \X Times] : n \in 0..MaxRows} :
     \A i \in 1..(Len(st) - 1) : st[i][3] <= st[i + 1][3]}

\* The store starts with the rows of a plan, the clock at the time of its last call
InitAtTime ==
  \E st \in StampedPlans :
    InitWith(ApplyStamped(Fresh(<<>>), st), 0, IF st = <<>> THEN 0 ELSE st[Len(st)][3])

NextAtTime ==
  \/ Tick
  \/ \E p \in Procs :
       \/ UpdateBalance(p)
       \/ GetBalanceAtTime(p)
       \/ getMutex(p)
       \/ Begin(p)
       \/ updateBalanceInTx(p)
       \/ InsertBalanceRow(p)
       \/ Commit(p)
       \/ SelectBalanceAtTime(p)
       \/ DeadlockVictim(p)

SpecAtTime == InitAtTime /\ [][NextAtTime]_vars

\* ------------------------------------------- N concurrent debits (C3)

\* The balances of account 1 the debits start from: no row, or a row with 0..MaxStart
MaxStart == 2
DebitStores ==
  {Fresh(<<>>)} \cup {Fresh(1 :> s) : s \in 0..MaxStart}

\* No storage failure is injected in these runs
InitDebits == \E s \in DebitStores : InitWith(s, MaxFaults, 0)

\* Every worker calls Debit(1, amt) once, all with the same amt
DebitOnce(p) ==
  /\ pc[p] = "idle"
  /\ \E amt \in 1..MaxAmount :
       /\ \A q \in Procs : req[q].name = "Debit" => req[q].amount = amt
       /\ Enter(p, [NoReq EXCEPT !.name = "Debit", !.user_id = 1, !.amount = amt], "get_balance")

NextDebits ==
  \E p \in Procs :
    \/ DebitOnce(p)
    \/ GetBalanceSelect(p)
    \/ GetBalanceInsert(p)
    \/ Begin(p)
    \/ InsertTransaction(p)
    \/ updateBalanceInTx(p)
    \/ SetStatus(p)
    \/ Commit(p)
    \/ ReadBack(p)

SpecDebits == InitDebits /\ [][NextDebits]_vars

\* ------------------------------ the HTTP handlers of the three mutations

RoleAdmin == "admin"
RoleUser == "user"

\* What the request context holds when the handler runs: the user id and role
\* the Authentication middleware took from the token, or neither
Contexts ==
  {NoCaller} \cup [ok : {TRUE}, user_id : Accounts, role : {RoleAdmin, RoleUser}]

\* The handler's answers that end a request before the service is called
RespInvalidRequest == "invalid_request"
RespUnauthorized == "unauthorized"
RespForbidden == "forbidden"

\* Any caller with the user role may act on any account
NotOwnAccountByRole(userRole, currentUserID, accountID) ==
  userRole # RoleAdmin /\ userRole # RoleUser

\* userRole != string(models.RoleAdmin) && currentUserID != req.UserID (Debit),
\* ... != req.FromUserID (Transfer)
NotOwnAccount(userRole, currentUserID, accountID) ==
  userRole # RoleAdmin /\ currentUserID # accountID

\* respondWithError and return: the request ends in the handler
Respond(p, r, code) ==
  /\ pc[p] \in {"idle", "done"}
  /\ calls < MaxCalls
  /\ calls' = calls + 1
  /\ req' = [req EXCEPT ![p] = r]
  /\ pre' = [pre EXCEPT ![p] = Snapshot]
  /\ quiet' = [quiet EXCEPT ![p] = TRUE]
  /\ result' = [result EXCEPT ![p] = [status |-> code, transaction |-> NoTxn, amount |-> 0,
                                       rows |-> <<>>]]
  /\ pc' = [pc EXCEPT ![p] = "done"]
  /\ loc' = [loc EXCEPT ![p] = NoLoc]
  /\ UNCHANGED <<balances, history, transactions, nextId, held, mu, tx, faults,
                 sumDeltas, audit, initial, dropped, log, clock>>

\* A body that json.Decode rejects: no field of the request is used
Undecoded(name, c) == [NoReq EXCEPT !.name = name, !.decoded = FALSE, !.caller = c]

\* TransactionHandler.Credit
HandleCredit(p) ==
  \E c \in Contexts :
    \/ Respond(p, Undecoded("Credit", c), RespInvalidRequest)
    \/ \E u \in Accounts, amt \in Amounts :
         LET r == [NoReq EXCEPT !.name = "Credit", !.user_id = u, !.amount = amt, !.caller = c]
         IN IF ~c.ok \/ c.role # RoleAdmin
              THEN Respond(p, r, RespForbidden)
              ELSE Enter(p, r, "begin")

\* TransactionHandler.Debit
HandleDebit(p) ==
  \E c \in Contexts :
    \/ Respond(p, Undecoded("Debit", c), RespInvalidRequest)
    \/ \E u \in Accounts, amt \in Amounts :
         LET r == [NoReq EXCEPT !.name = "Debit", !.user_id = u, !.amount = amt, !.caller = c]
         IN IF ~c.ok
              THEN Respond(p, r, RespUnauthorized)
            ELSE IF NotOwnAccount(c.role, c.user_id, r.user_id)
              THEN Respond(p, r, RespForbidden)
              ELSE Enter(p, r, "get_balance")

\* TransactionHandler.Transfer
HandleTransfer(p) ==
  \E c \in Contexts :
    \/ Respond(p, Undecoded("Transfer", c), RespInvalidRequest)
    \/ \E u \in Accounts, v \in Accounts, amt \in Amounts :
         LET r == [NoReq EXCEPT !.name = "Transfer", !.user_id = u, !.to_user_id = v,
                                !.amount = amt, !.caller = c]
         IN IF ~c.ok
              THEN Respond(p, r, RespUnauthorized)
            ELSE IF NotOwnAccount(c.role, c.user_id, r.user_id)
              THEN Respond(p, r, RespForbidden)
              ELSE Enter(p, r, "get_balance")

\* Requests arrive through the handlers only, on stores that hold balance rows
\* and no transaction yet; no storage failure is injected
InitHandlers == \E b \in InitBalances : InitWith(Fresh(b), MaxFaults, 0)

NextHandlers ==
  \E p \in Procs :
    \/ HandleCredit(p)
    \/ HandleDebit(p)
    \/ HandleTransfer(p)
    \/ GetBalanceSelect(p)
    \/ GetBalanceInsert(p)
    \/ Begin(p)
    \/ InsertTransaction(p)
    \/ updateBalanceInTx(p)
    \/ InsertBalanceRow(p)
    \/ SetStatus(p)
    \/ Commit(p)
    \/ ReadBack(p)
    \/ DeadlockVictim(p)

SpecHandlers == InitHandlers /\ [][NextHandlers]_vars


\* ------------------- RollbackTransaction on records of every status

\* The statuses a transactions row can carry that no call of the service
\* commits: status is a free VARCHAR(50), and RollbackTransaction has a branch
\* for rows that are neither completed nor rolled_back
ForeignStatuses == {TransactionStatusPending, TransactionStatusFailed}

\* Types a transactions row can carry that no call of the service writes: type
\* is a free VARCHAR(50), and the switch of RollbackTransaction has a default
\* branch
ForeignTypes == {"refund", ""}

\* The stores of Init that hold a record, as they are, with the record's status
\* replaced by a foreign one, and with its type replaced by a foreign one
RollbackStores ==
  LET recorded == {s \in Stores : DOMAIN s.transactions # {}}
  IN  recorded
        \cup {[s EXCEPT !.transactions = [id \in DOMAIN @ |-> [@[id] EXCEPT !.status = st]]] :
                s \in recorded, st \in ForeignStatuses}
        \cup {[s EXCEPT !.transactions = [id \in DOMAIN @ |-> [@[id] EXCEPT !.type = ty]]] :
                s \in recorded, ty \in ForeignTypes}

\* No storage failure is injected in these runs
InitRollbacks == \E s \in RollbackStores : InitWith(s, MaxFaults, 0)

\* Concurrent RollbackTransaction calls only
NextRollbacks ==
  \E p \in Procs :
    \/ RollbackTransaction(p)
    \/ GetTransaction(p)
    \/ Begin(p)
    \/ updateBalanceInTx(p)
    \/ SetStatus(p)
    \/ Commit(p)

SpecRollbacks == InitRollbacks /\ [][NextRollbacks]_vars

\* ------------------------------------ the reader operations side by side

MaxLimit == 2     \* largest LIMIT of a history page
MaxOffset == 1    \* largest OFFSET of a history page

\* The rows of account a
EntriesFor(h, a) == {i \in 1..Len(h) : h[i].user_id = a}

\* ORDER BY created_at DESC: the orders the query may return the rows in (rows
\* of the same second in any order)
ByCreatedAtDesc(h, rows) ==
  {f \in [1..Cardinality(rows) -> rows] :
     /\ \A i, j \in DOMAIN f : i # j => f[i] # f[j]
     /\ \A i, j \in DOMAIN f : i < j => h[f[i]].created_at >= h[f[j]].created_at}

\* LIMIT ? OFFSET ?
Page(s, limit, offset) ==
  SubSeq(s, offset + 1, IF offset + limit < Len(s) THEN offset + limit ELSE Len(s))

\* BalanceService.GetBalanceHistory: one SELECT; limit > 0 and offset >= 0 as
\* the handler passes them
GetBalanceHistory(p) ==
  \E u \in Accounts, l \in 1..MaxLimit, o \in 0..MaxOffset :
    Enter(p, [NoReq EXCEPT !.name = "GetBalanceHistory", !.user_id = u, !.limit = l, !.offset = o],
          "select_history")

\* SELECT ... FROM balance_history WHERE user_id = ? ORDER BY created_at DESC
\* LIMIT ? OFFSET ?   (autocommit), then the scan of the rows.  A failure of
\* s.db.Query returns a storage error.  A failure while the rows are read ends
\* the loop (rows.Next() returns false) and, as rows.Err() is never looked at,
\* the rows scanned so far are returned with a nil error.
SelectHistory(p) ==
  /\ pc[p] = "select_history"
  /\ \E fail \in FailPoints({"select", "rows"}) :
       /\ Inject(fail # "none")
       /\ IF fail = "select" THEN StorageFailure(p)
          ELSE \E f \in ByCreatedAtDesc(history, EntriesFor(history, req[p].user_id)) :
                 LET page == Page([i \in DOMAIN f |-> history[f[i]]], req[p].limit, req[p].offset)
                 IN  \E n \in (IF fail = "rows" THEN 0..Len(page) ELSE {Len(page)}) :
                       /\ pc' = [pc EXCEPT ![p] = "done"]
                       /\ result' = [result EXCEPT ![p] =
                            [status |-> Ok, transaction |-> NoTxn, amount |-> 0,
                             rows |-> SubSeq(page, 1, n)]]
                       /\ loc' = [loc EXCEPT ![p] = [NoLoc EXCEPT !.faulted = (fail = "rows")]]
                       /\ UNCHANGED <<tx, held, mu>>
  /\ UNCHANGED <<balances, history, transactions, nextId, req, calls, pre, quiet,
                 sumDeltas, audit, initial, dropped, log, clock>>

\* TransactionService.GetTransactionByID called on its own (the transaction handler)
GetTransactionByIDCall(p) ==
  \E id \in TxnIds :
    Enter(p, [NoReq EXCEPT !.name = "GetTransactionByID", !.id = id], "select_transaction")

\* SELECT ... FROM transactions WHERE id = ?; sql.ErrNoRows gives "transaction not found"
SelectTransaction(p) ==
  /\ pc[p] = "select_transaction"
  /\ \E fail \in FailPoints({"select"}) :
       /\ Inject(fail # "none")
       /\ LET t == GetTransactionByID(req[p].id) IN
          IF fail # "none" THEN StorageFailure(p)
          ELSE IF t = NoTxn THEN Return(p, ErrNotFound, NoTxn, 0, FALSE)
          ELSE Return(p, Ok, t, 0, FALSE)
  /\ UNCHANGED <<balances, history, transactions, nextId, req, calls, pre, quiet,
                 sumDeltas, audit, initial, dropped, log, clock>>

\* The five readers, from the stores of Init, next to Credit calls
NextReaders ==
  \E p \in Procs :
    \/ GetBalance(p)
    \/ GetBalanceHistory(p)
    \/ GetBalanceAtTime(p)
    \/ ReconcileBalance(p)
    \/ GetTransactionByIDCall(p)
    \/ Credit(p)
    \/ GetBalanceSelect(p)
    \/ GetBalanceInsert(p)
    \/ SelectHistory(p)
    \/ SelectBalanceAtTime(p)
    \/ CalculateBalanceFromHistory(p)
    \/ SelectTransaction(p)
    \/ Begin(p)
    \/ InsertTransaction(p)
    \/ updateBalanceInTx(p)
    \/ InsertBalanceRow(p)
    \/ SetStatus(p)
    \/ Commit(p)
    \/ ReadBack(p)
    \/ DeadlockVictim(p)

SpecReaders == Init /\ [][NextReaders]_vars

\* ------------------- the four mutations while the store's clock runs

MaxTicks == 2    \* seconds that pass while the calls of these runs are made

\* No storage failure is injected in these runs; the rows of the store were
\* written at second 0 and the calls start with MaxTicks seconds of the clock left
InitRecords == \E s \in Stores : InitWith(s, MaxFaults, MaxTime - MaxTicks)

NextRecords ==
  \/ Tick
  \/ \E p \in Procs :
       \/ Credit(p)
       \/ Debit(p)
       \/ Transfer(p)
       \/ RollbackTransaction(p)
       \/ GetBalanceSelect(p)
       \/ GetBalanceInsert(p)
       \/ GetTransaction(p)
       \/ Begin(p)
       \/ InsertTransaction(p)
       \/ updateBalanceInTx(p)
       \/ InsertBalanceRow(p)
       \/ SetStatus(p)
       \/ Commit(p)
       \/ ReadBack(p)
       \/ DeadlockVictim(p)

SpecRecords == InitRecords /\ [][NextRecords]_vars

\* ------------------- the four operations from empty tables (C32)

\* The store after the call r, run alone on the store s, returned success; the
\* entries of the earlier records whose accounts the call touched are no longer
\* clean
ThenCall(s, r) ==
  LET id == s.nextId
      t == [Inserted(NewTransaction(r, id), 0) EXCEPT !.status = NextStatus(r.name)]
      old == [j \in DOMAIN s.audit |->
                [s.audit[j] EXCEPT
                   !.clean = @ /\ Involved(s.transactions[j]) \cap Involved(t) = {}]]
  IN  [ApplyDeltas(s, RequestDeltas(r), 0) EXCEPT
         !.transactions = (id :> t) @@ @,
         !.nextId = id + 1,
         !.audit = (id :> [before |-> [a \in Involved(t) |-> BalanceOf(s.balances, a)],
                           clean |-> TRUE, rollbacks |-> 0]) @@ old]

\* The stores that up to two successful Credit, Debit or Transfer calls, one
\* after the other, leave of empty tables
LedgerStores ==
  LET empty == Fresh(<<>>)
      one == {ThenCall(empty, r) : r \in EarlierCalls(empty.balances)}
      two == UNION {{ThenCall(s, r) : r \in EarlierCalls(s.balances)} : s \in one}
  IN  {empty} \cup one \cup two

\* No storage failure is injected in these runs
InitLedger == \E s \in LedgerStores : InitWith(s, MaxFaults, 0)

\* Concurrent Credit, Debit, Transfer and RollbackTransaction calls
NextLedger ==
  \E p \in Procs :
    \/ Credit(p)
    \/ Debit(p)
    \/ Transfer(p)
    \/ RollbackTransaction(p)
    \/ GetBalanceSelect(p)
    \/ GetBalanceInsert(p)
    \/ GetTransaction(p)
    \/ Begin(p)
    \/ InsertTransaction(p)
    \/ updateBalanceInTx(p)
    \/ InsertBalanceRow(p)
    \/ SetStatus(p)
    \/ Commit(p)
    \/ ReadBack(p)
    \/ DeadlockVictim(p)

SpecLedger == InitLedger /\ [][NextLedger]_vars

\* ------------------- every call returns (C36)

\* Empty tables; a funded row for every account; those rows after one successful
\* call; and after a successful transfer following that call: two records,
\* among them the transfers 1 -> 2 and 2 -> 1
FairStores ==
  LET funded == Fresh([a \in Accounts |-> MaxInitBalance])
      one == {ThenCall(funded, r) : r \in EarlierCalls(funded.balances)}
      two == UNION {{ThenCall(s, r) : r \in {c \in EarlierCalls(s.balances) : c.name = "Transfer"}} :
                      s \in one}
  IN  {Fresh(<<>>), funded} \cup one \cup two

\* No storage failure is injected in these runs
InitFair == \E s \in FairStores : InitWith(s, MaxFaults, 0)

\* Concurrent Credit, Debit, Transfer and RollbackTransaction calls.  The Go
\* scheduler runs every goroutine that can run and the database executes every
\* statement that waits for nothing (and ends one of two sql.Tx that wait for
\* each other); nothing makes a client start a call.
SpecFair == InitFair /\ [][NextLedger]_vars /\ \A p \in Procs : WF_vars(Step(p))

\* ------------------- the HTTP handler of GET /transactions/{id} (C38)

\* The ids of the users table: the accounts of the runs and users beyond them
MaxUser == 3
Users == 1..MaxUser

\* What the request context holds when the handler runs, for every user
ViewerContexts ==
  {NoCaller} \cup [ok : {TRUE}, user_id : Users, role : {RoleAdmin, RoleUser}]

RespInvalidTransactionID == "invalid_transaction_id"
RespTransactionNotFound == "transaction_not_found"

\* userRole != admin && (FromUserID != nil && *FromUserID != currentUserID)
\*                   && (ToUserID != nil && *ToUserID != currentUserID)
NotOwnTransaction(userRole, currentUserID, t) ==
  /\ userRole # RoleAdmin
  /\ t.from_user_id # Null /\ t.from_user_id # currentUserID
  /\ t.to_user_id # Null /\ t.to_user_id # currentUserID

\* TransactionHandler.GetTransaction up to the call of the service: the id of
\* the path (strconv.Atoi), then the caller of the request context
HandleGetTransaction(p) ==
  \E c \in ViewerContexts :
    \/ Respond(p, Undecoded("GetTransaction", c), RespInvalidTransactionID)
    \/ \E id \in TxnIds :
         LET r == [NoReq EXCEPT !.name = "GetTransaction", !.id = id, !.caller = c]
         IN IF ~c.ok
              THEN Respond(p, r, RespUnauthorized)
              ELSE Enter(p, r, "view_transaction")

\* TransactionHandler.GetTransaction from the call of the service on: any error
\* of GetTransactionByID is answered with transaction_not_found, a record that
\* is not the caller's with forbidden, and any other record is returned
ViewTransaction(p) ==
  /\ pc[p] = "view_transaction"
  /\ \E fail \in FailPoints({"select"}) :
       /\ Inject(fail # "none")
       /\ LET t == GetTransactionByID(req[p].id)
              c == req[p].caller
          IN  IF fail # "none" THEN Return(p, RespTransactionNotFound, NoTxn, 0, TRUE)
              ELSE IF t = NoTxn THEN Return(p, RespTransactionNotFound, NoTxn, 0, FALSE)
              ELSE IF NotOwnTransaction(c.role, c.user_id, t)
                THEN Return(p, RespForbidden, NoTxn, 0, FALSE)
              ELSE Return(p, Ok, t, 0, FALSE)
  /\ UNCHANGED <<balances, history, transactions, nextId, req, calls, pre, quiet,
                 sumDeltas, audit, initial, dropped, log, clock>>

\* GET /transactions/{id} requests on the stores of Init; no storage failure is
\* injected
InitViews == \E s \in Stores : InitWith(s, MaxFaults, 0)

NextViews ==
  \E p \in Procs :
    \/ HandleGetTransaction(p)
    \/ ViewTransaction(p)

SpecViews == InitViews /\ [][NextViews]_vars

\* ---------------------------------------------------------------- claims

Done(p) == pc[p] = "done"

\* The amounts of all accounts (0 for an account with no row)
Amounts_(b) == [a \in Accounts |-> BalanceOf(b, a)]

\* Balances, history and transaction records are what they were when p's call started
LedgerUnchanged(p) ==
  /\ Amounts_(balances) = Amounts_(pre[p].balances)
  /\ history = pre[p].history
  /\ transactions = pre[p].transactions

\* C1: in every committed state every account's stored balance is >= 0.
C1_BalanceNeverNegative ==
  \A a \in DOMAIN balances : balances[a] >= 0

\* A debit passed the advisory check, was refused under the row lock, and the
\* balance it would have overdrawn is 0
C1_Witness ==
  \E p \in Procs :
    /\ Done(p) /\ req[p].name = "Debit"
    /\ result[p].status = ErrInsufficient
    /\ loc[p].transactionID # 0
    /\ BalanceOf(balances, req[p].user_id) = 0

\* The committed effect of p's Transfer: both balances moved and exactly one new
\* record, completed, for the call
TransferApplied(p) ==
  LET r == req[p]
      id == loc[p].transactionID
  IN  /\ r.user_id # r.to_user_id
      /\ BalanceOf(balances, r.user_id) = BalanceOf(pre[p].balances, r.user_id) - r.amount
      /\ BalanceOf(balances, r.to_user_id) = BalanceOf(pre[p].balances, r.to_user_id) + r.amount
      /\ DOMAIN transactions = DOMAIN pre[p].transactions \cup {id}
      /\ id \notin DOMAIN pre[p].transactions
      /\ transactions[id] = [NewTransaction(r, id) EXCEPT !.status = TransactionStatusCompleted]
      /\ \A j \in DOMAIN pre[p].transactions : transactions[j] = pre[p].transactions[j]

\* Nothing of p's Transfer is committed
TransferAbsent(p) ==
  /\ Amounts_(balances) = Amounts_(pre[p].balances)
  /\ transactions = pre[p].transactions

\* C2: Transfer is all-or-nothing.  At every moment of a Transfer call and after
\* it returned, whatever the outcome (success, insufficient balance, a storage
\* failure at any statement), the committed rows show both balance changes and
\* exactly one completed record for the call, or none of them (as long as no
\* other worker committed meanwhile); success means all, insufficient balance
\* and validation errors mean none.
C2_TransferAllOrNothing ==
  \A p \in Procs :
    req[p].name = "Transfer" /\ quiet[p] =>
      /\ TransferApplied(p) \/ TransferAbsent(p)
      /\ result[p].status = Ok => TransferApplied(p)
      /\ result[p].status \in {ErrInsufficient, ErrValidation} => TransferAbsent(p)

\* A Transfer hit by a storage failure after it inserted its record returned
\* with nothing committed
C2_Witness ==
  \E p \in Procs :
    /\ Done(p) /\ req[p].name = "Transfer" /\ quiet[p]
    /\ result[p].status = ErrStorage /\ loc[p].faulted
    /\ loc[p].transactionID # 0
    /\ TransferAbsent(p) /\ ~TransferApplied(p)

Min(x, y) == IF x < y THEN x ELSE y

\* C3: N concurrent Debit(A, amt) on a starting balance that covers exactly K of
\* them: exactly K succeed, the others fail with insufficient balance, and the
\* final balance is start - K * amt.
C3_ConcurrentDebits ==
  (\A p \in Procs : Done(p)) =>
    LET amt == req[CHOOSE p \in Procs : TRUE].amount
        start == BalanceOf(initial, 1)
        K == Min(Cardinality(Procs), start \div amt)
        succeeded == {p \in Procs : result[p].status = Ok}
    IN  /\ Cardinality(succeeded) = K
        /\ \A p \in Procs \ succeeded : result[p].status = ErrInsufficient
        /\ BalanceOf(balances, 1) = start - K * amt

\* C4: a Debit(A, amt) or Transfer(A, B, amt) with amt greater than A's balance,
\* hit by no storage failure and with no other worker committing meanwhile,
\* fails with insufficient balance and leaves every balance amount, the history
\* and the transaction records as they were before the call.
C4_OverdraftRefused ==
  \A p \in Procs :
    ( /\ Done(p) /\ req[p].name \in {"Debit", "Transfer"} /\ ~Invalid(req[p])
      /\ quiet[p] /\ ~loc[p].faulted
      /\ req[p].amount > BalanceOf(pre[p].balances, req[p].user_id) )
    => result[p].status = ErrInsufficient /\ LedgerUnchanged(p)

\* A Transfer from an account that had no balance row was refused
C4_Witness ==
  \E p \in Procs :
    /\ Done(p) /\ req[p].name = "Transfer" /\ ~Invalid(req[p])
    /\ quiet[p] /\ ~loc[p].faulted
    /\ req[p].user_id \notin DOMAIN pre[p].balances
    /\ result[p].status = ErrInsufficient

\* C5: a completed transaction is rolled back at most once: of any number of
\* Rollback(tx) calls at most one returns success, and the compensating deltas
\* are committed once.
C5_RollbackAtMostOnce ==
  /\ \A j \in DOMAIN audit : audit[j].rollbacks <= 1
  /\ \A p, q \in Procs :
       ( /\ p # q /\ Done(p) /\ Done(q)
         /\ req[p].name = "Rollback" /\ req[q].name = "Rollback"
         /\ req[p].id = req[q].id )
       => ~(result[p].status = Ok /\ result[q].status = Ok)

\* C6: after a successful rollback of a completed transaction, with no other
\* mutation of its accounts since the original operation started, every
\* involved balance is what it was before the original operation.
C6_RollbackRestores ==
  \A j \in DOMAIN audit :
    transactions[j].status = TransactionStatusRolledBack /\ audit[j].clean =>
      \A a \in Involved(transactions[j]) : BalanceOf(balances, a) = audit[j].before[a]

\* A transfer was rolled back with nothing else touching its two accounts
C6_Witness ==
  \E j \in DOMAIN audit :
    /\ transactions[j].status = TransactionStatusRolledBack /\ audit[j].clean
    /\ transactions[j].type = TransactionTypeTransfer
    /\ \E p \in Procs : Done(p) /\ req[p].name = "Rollback" /\ req[p].id = j
                        /\ result[p].status = Ok

\* The transaction of p's Rollback was already rolled back when the call started
WasRolledBack(p) ==
  /\ req[p].id \in DOMAIN pre[p].transactions
  /\ pre[p].transactions[req[p].id].status = TransactionStatusRolledBack

\* C7: Rollback(tx) on a transaction that is already rolled back (and hit by no
\* storage failure) fails with "already rolled back" and changes no balance, no
\* history entry and no transaction record.
C7_SecondRollbackRefused ==
  \A p \in Procs :
    Done(p) /\ req[p].name = "Rollback" /\ WasRolledBack(p) /\ ~loc[p].faulted =>
      /\ result[p].status = ErrAlreadyRolledBack
      /\ quiet[p] => LedgerUnchanged(p)

\* A second Rollback of a rolled-back transaction returned, running alone
C7_Witness ==
  \E p \in Procs :
    /\ Done(p) /\ req[p].name = "Rollback" /\ WasRolledBack(p) /\ ~loc[p].faulted
    /\ quiet[p]
    /\ result[p].status = ErrAlreadyRolledBack

\* C8: when Credit, Debit, Transfer or Rollback returns an error caused by an
\* internal failure (a storage failure at any statement; not a validation
\* error), balances, history and transaction records are what they were before
\* the call.
C8_ErrorLeavesLedgerUnchanged ==
  \A p \in Procs :
    ( /\ Done(p) /\ req[p].name \in {"Credit", "Debit", "Transfer", "Rollback"}
      /\ result[p].status \notin {Ok, ErrValidation, NoResult}
      /\ quiet[p] )
    => LedgerUnchanged(p)

Statuses == {TransactionStatusPending, TransactionStatusCompleted, TransactionStatusRolledBack}

\* One step along pending -> completed -> rolled_back, or none
LegalMove(s, t) ==
  /\ t \in Statuses
  /\ \/ s = t
     \/ s = TransactionStatusPending /\ t = TransactionStatusCompleted
     \/ s = TransactionStatusCompleted /\ t = TransactionStatusRolledBack

\* What one step does to the status of every transaction record, committed or
\* held by a sql.Tx
StatusMoves ==
  /\ \A id \in DOMAIN transactions :
       /\ id \in DOMAIN transactions'
       /\ LegalMove(transactions[id].status, transactions'[id].status)
  /\ \A id \in DOMAIN transactions' \ DOMAIN transactions :
       \E p \in Procs :
         /\ id \in DOMAIN tx[p].txn
         /\ LegalMove(tx[p].txn[id].status, transactions'[id].status)
  /\ \A p \in Procs : \A id \in DOMAIN tx'[p].txn :
       IF id \in DOMAIN tx[p].txn
         THEN LegalMove(tx[p].txn[id].status, tx'[p].txn[id].status)
       ELSE IF id \in DOMAIN transactions
         THEN LegalMove(transactions[id].status, tx'[p].txn[id].status)
       ELSE tx'[p].txn[id].status = TransactionStatusPending

\* C9: the status of every transaction record only moves along
\* pending -> completed -> rolled_back: every step leaves each record's status
\* (the committed one, and the one a unit of work holds) where it was or moves
\* it one step forward, and a new record starts pending.
C9_StatusOnlyMovesForward == [][StatusMoves]_vars

\* A Rollback ran into a rolled-back record and left it rolled back
C9_Witness ==
  \E p \in Procs :
    /\ Done(p) /\ req[p].name = "Rollback"
    /\ result[p].status = ErrAlreadyRolledBack
    /\ transactions[req[p].id].status = TransactionStatusRolledBack

\* C10: for each account the committed mutations are totally ordered and none
\* is lost: every uncommitted new balance a unit of work holds is the committed
\* balance plus the deltas of that unit, and the committed balance is the
\* initial balance plus the sum of the deltas of all committed mutations.
C10_NoLostUpdate ==
  /\ \A a \in Accounts : BalanceOf(balances, a) = BalanceOf(initial, a) + sumDeltas[a]
  /\ \A p \in Procs : \A a \in DOMAIN tx[p].bal :
       tx[p].bal[a] = BalanceOf(balances, a) + SumFor(tx[p].deltas, a)

\* Two overlapping calls both committed a mutation of the same account
C10_Witness ==
  \E p, q \in Procs :
    /\ p # q /\ Done(p) /\ Done(q)
    /\ ~quiet[p] /\ ~quiet[q]
    /\ req[p].name \in {"Credit", "Debit"} /\ req[q].name \in {"Credit", "Debit"}
    /\ req[p].user_id = req[q].user_id
    /\ result[p].status = Ok /\ result[q].status = Ok

\* p's Transfer holds the row lock of one of its accounts and waits for the row
\* lock of the other, which q holds
HoldsAndWaits(p, q) ==
  /\ req[p].name = "Transfer"
  /\ \E a \in Accounts : <<"balances", a>> \in held[p]
  /\ WantedKey(p)[1] = "balances"
  /\ WantedKey(p) \in held[q]

\* C11: two concurrent opposite transfers Transfer(A, B, x) and Transfer(B, A, y)
\* never reach a state in which each holds one account's lock and waits for the
\* other's (the locks of a transfer are taken in ascending account id).
C11_NoOppositeTransferDeadlock ==
  \A p, q \in Procs :
    ( /\ p # q
      /\ req[p].name = "Transfer" /\ req[q].name = "Transfer"
      /\ req[p].user_id = req[q].to_user_id /\ req[p].to_user_id = req[q].user_id )
    => ~(HoldsAndWaits(p, q) /\ HoldsAndWaits(q, p))

\* Account a's stored balance differs from the sum of its history deltas in the
\* rows committed when p's call started
DriftAtStart(p, a) == BalanceOf(pre[p].balances, a) # SumChanges(pre[p].history, a)

\* p's call logged a discrepancy warning for account a
Warned(p, a) ==
  \E i \in (Len(pre[p].log) + 1)..Len(log) : log[i] = [worker |-> p, user_id |-> a]

\* C12: whenever an account's stored balance differs from the sum of
\* change_amount over its history entries, a ReconcileBalance of that account
\* that runs with no concurrent mutation and no storage failure logs a
\* discrepancy.
C12_ReconcileDetectsDrift ==
  \A p \in Procs :
    ( /\ Done(p) /\ req[p].name = "ReconcileBalance"
      /\ quiet[p] /\ result[p].status = Ok
      /\ DriftAtStart(p, req[p].user_id) )
    => Warned(p, req[p].user_id)

\* A reconcile ran after a balance write whose history append failed, and logged
\* the discrepancy
C12_Witness ==
  \E p \in Procs :
    /\ Done(p) /\ req[p].name = "ReconcileBalance"
    /\ quiet[p] /\ result[p].status = Ok
    /\ dropped > 0
    /\ DriftAtStart(p, req[p].user_id)
    /\ Warned(p, req[p].user_id)

\* C13: when no history append fails, in every committed state the sum of
\* change_amount over an account's history entries equals the account's stored
\* balance (0 for an account with no row).
C13_HistorySumsToBalance ==
  dropped = 0 =>
    \A a \in Accounts : SumChanges(history, a) = BalanceOf(balances, a)

\* A transfer and a rollback both committed with every history append recorded
C13_Witness ==
  /\ dropped = 0
  /\ \E p, q \in Procs :
       /\ p # q /\ Done(p) /\ Done(q)
       /\ req[p].name = "Transfer" /\ result[p].status = Ok
       /\ req[q].name = "Rollback" /\ result[q].status = Ok

\* Everything but account a's balance row is as it was when p's call started
OnlyRowChanged(p, a) ==
  /\ \A b \in Accounts \ {a} :
       /\ (b \in DOMAIN balances) = (b \in DOMAIN pre[p].balances)
       /\ BalanceOf(balances, b) = BalanceOf(pre[p].balances, b)
  /\ history = pre[p].history
  /\ transactions = pre[p].transactions

\* C14: GetBalance on an account with no balance row returns amount 0 with no
\* error and leaves a row with amount 0; on an account with a row it returns the
\* stored amount and changes nothing (calls hit by no storage failure, with no
\* other worker committing meanwhile).
C14_GetBalance ==
  \A p \in Procs :
    Done(p) /\ req[p].name = "GetBalance" /\ quiet[p] /\ ~loc[p].faulted =>
      LET a == req[p].user_id IN
        /\ result[p].status = Ok
        /\ a \in DOMAIN balances
        /\ OnlyRowChanged(p, a)
        /\ IF a \in DOMAIN pre[p].balances
             THEN result[p].amount = pre[p].balances[a] /\ balances[a] = pre[p].balances[a]
             ELSE result[p].amount = 0 /\ balances[a] = 0

\* A GetBalance created the zero row of an account that had none
C14_Witness ==
  \E p \in Procs :
    /\ Done(p) /\ req[p].name = "GetBalance" /\ quiet[p] /\ ~loc[p].faulted
    /\ req[p].user_id \notin DOMAIN pre[p].balances
    /\ req[p].user_id \in DOMAIN balances
    /\ result[p].status = Ok /\ result[p].amount = 0

\* C15: GetBalanceAtTime(account, t) returns the balance of the account's
\* history entry with the greatest created_at <= t (one of them when several
\* entries share that second), and 0 when the account has no entry with
\* created_at <= t; when the account's entries are three, at t1 < t2 < t3, it
\* returns the balance recorded at t2 for every t with t2 <= t < t3.
C15_BalanceAtTime ==
  \A p \in Procs :
    Done(p) /\ req[p].name = "GetBalanceAtTime" /\ result[p].status = Ok /\ quiet[p] =>
      LET h == pre[p].history
          a == req[p].user_id
          t == req[p].target_time
          upTo == {i \in 1..Len(h) : h[i].user_id = a /\ h[i].created_at <= t}
          mine == {i \in 1..Len(h) : h[i].user_id = a}
      IN  /\ IF upTo = {} THEN result[p].amount = 0
             ELSE \E i \in upTo :
                    /\ \A j \in upTo : h[j].created_at <= h[i].created_at
                    /\ result[p].amount = h[i].balance
          /\ \A i, j, k \in mine :
               ( /\ mine = {i, j, k}
                 /\ h[i].created_at < h[j].created_at /\ h[j].created_at < h[k].created_at
                 /\ h[j].created_at <= t /\ t < h[k].created_at )
               => result[p].amount = h[j].balance

\* Entries of one account at t1 < t2 < t3, and a call with t2 < t < t3 returned
\* the balance recorded at t2
C15_Witness ==
  \E p \in Procs :
    /\ Done(p) /\ req[p].name = "GetBalanceAtTime" /\ result[p].status = Ok /\ quiet[p]
    /\ LET h == pre[p].history
           mine == {i \in 1..Len(h) : h[i].user_id = req[p].user_id}
       IN  /\ Cardinality(mine) = 3
           /\ \A i, j \in mine : i < j => h[i].created_at < h[j].created_at
           /\ \E i, j, k \in mine :
                /\ i < j /\ j < k
                /\ h[j].created_at < req[p].target_time
                /\ req[p].target_time < h[k].created_at
                /\ result[p].amount = h[j].balance
                /\ h[j].balance # h[i].balance /\ h[j].balance # h[k].balance

\* The history entries a rollback of t adds: the account and the compensating
\* delta of each, in order
Compensation(t) ==
  IF t.type = TransactionTypeCredit THEN <<<<t.to_user_id, -t.amount>>>>
  ELSE IF t.type = TransactionTypeDebit THEN <<<<t.from_user_id, t.amount>>>>
  ELSE <<<<t.from_user_id, t.amount>>, <<t.to_user_id, -t.amount>>>>

\* What one step does to the committed history: the rows committed before stay
\* where and what they were, and the commit of a rollback that lost no history
\* append adds exactly one row per compensated account
HistoryStep ==
  /\ Len(history') >= Len(history)
  /\ SubSeq(history', 1, Len(history)) = history
  /\ \A p \in Procs :
       ( /\ req[p].name = "Rollback" /\ pc[p] = "commit" /\ pc'[p] = "done"
         /\ result'[p].status = Ok /\ ~loc[p].faulted )
       => LET added == SubSeq(history', Len(history) + 1, Len(history'))
              comp == Compensation(transactions[req[p].id])
          IN  /\ Len(added) = Len(comp)
              /\ \A i \in 1..Len(comp) :
                   /\ added[i].user_id = comp[i][1]
                   /\ added[i].change_amount = comp[i][2]

\* C16: committed history is append-only: every step leaves all previously
\* committed history entries present and unchanged, and a successful rollback
\* adds one new entry per compensated account (change_amount = the compensating
\* delta) instead of removing or editing the entries of the original transaction.
C16_HistoryAppendOnly == [][HistoryStep]_vars

\* A rollback of a transfer committed: the history it found plus two new entries
C16_Witness ==
  \E p \in Procs :
    /\ Done(p) /\ req[p].name = "Rollback" /\ result[p].status = Ok /\ quiet[p]
    /\ transactions[req[p].id].type = TransactionTypeTransfer
    /\ Len(pre[p].history) >= 2
    /\ Len(history) = Len(pre[p].history) + 2
    /\ SubSeq(history, 1, Len(pre[p].history)) = pre[p].history

\* The request fails the checks made before any statement
Rejectable(r) ==
  \/ r.name \in {"Credit", "Debit", "Transfer"} /\ r.amount <= 0
  \/ r.name = "Transfer" /\ r.user_id = r.to_user_id

\* C17: Credit, Debit and Transfer with amount <= 0, and Transfer with source =
\* destination, return a validation error before any unit of work is opened and
\* before any read or write: no balance row is created, no transaction id is
\* used, and balances, history and transaction records are unchanged.
C17_ValidationFirst ==
  \A p \in Procs :
    Rejectable(req[p]) /\ pc[p] # "idle" =>
      /\ Done(p)
      /\ result[p].status = ErrValidation
      /\ loc[p].transactionID = 0
      /\ ~tx[p].open /\ held[p] = {}
      /\ quiet[p] => /\ balances = pre[p].balances
                     /\ history = pre[p].history
                     /\ transactions = pre[p].transactions

\* A same-account transfer of a valid amount from an account with no balance row
\* was rejected, and the account still has no row
C17_Witness ==
  \E p \in Procs :
    /\ Done(p) /\ req[p].name = "Transfer" /\ req[p].amount > 0
    /\ req[p].user_id = req[p].to_user_id
    /\ result[p].status = ErrValidation /\ quiet[p]
    /\ req[p].user_id \notin DOMAIN balances

\* C18: every committed transaction record is well-formed: a credit has its
\* destination set and its source null, a debit its source set and its
\* destination null, a transfer both set and different, and amount > 0.
C18_RecordsWellFormed ==
  \A id \in DOMAIN transactions :
    LET t == transactions[id] IN
      /\ t.amount > 0
      /\ t.type \in {TransactionTypeCredit, TransactionTypeDebit, TransactionTypeTransfer}
      /\ t.type = TransactionTypeCredit => t.to_user_id \in Accounts /\ t.from_user_id = Null
      /\ t.type = TransactionTypeDebit => t.from_user_id \in Accounts /\ t.to_user_id = Null
      /\ t.type = TransactionTypeTransfer =>
           /\ t.from_user_id \in Accounts /\ t.to_user_id \in Accounts
           /\ t.from_user_id # t.to_user_id

\* Two calls of the run committed records of different types
C18_Witness ==
  \E p, q \in Procs :
    /\ p # q /\ Done(p) /\ Done(q)
    /\ result[p].status = Ok /\ result[q].status = Ok
    /\ req[p].name = "Transfer" /\ req[q].name \in {"Credit", "Debit"}
    /\ loc[p].transactionID \in DOMAIN transactions
    /\ loc[q].transactionID \in DOMAIN transactions

\* p's UpdateBalance is between mu.Lock() and its return
InsideUpdate(p) ==
  /\ req[p].name = "UpdateBalance"
  /\ pc[p] \in {"begin", "updateBalanceInTx", "insert_balance", "commit"}

\* C19: the per-account guard is exclusive and scoped: an account has one mutex,
\* an UpdateBalance between Lock and return holds it, at most one UpdateBalance
\* of an account is there at any time, and a worker whose UpdateBalance returned
\* (success, insufficient balance or storage error) holds no mutex.
C19_GuardExclusiveAndScoped ==
  /\ \A p \in Procs :
       InsideUpdate(p) => req[p].user_id \in DOMAIN mu /\ mu[req[p].user_id] = p
  /\ \A p, q \in Procs :
       InsideUpdate(p) /\ InsideUpdate(q) /\ req[p].user_id = req[q].user_id => p = q
  /\ \A p \in Procs :
       pc[p] \in {"idle", "done", "mutex"} => \A a \in DOMAIN mu : mu[a] # p

\* An UpdateBalance waits at mu.Lock() while another holds the account's mutex
\* inside its unit of work
C19_Witness ==
  \E p, q \in Procs :
    /\ p # q
    /\ req[p].name = "UpdateBalance" /\ pc[p] = "mutex"
    /\ InsideUpdate(q) /\ pc[q] = "commit"
    /\ req[p].user_id = req[q].user_id
    /\ mu[req[q].user_id] = q

\* The caller may make the request: the rule of the collaborator contract
MayMutate(r) ==
  /\ r.caller.ok
  /\ \/ r.caller.role = "admin"
     \/ r.name \in {"Debit", "Transfer"} /\ r.caller.user_id = r.user_id

\* p's request went past the handler, into TransactionService
Forwarded(p) ==
  \/ pc[p] \notin {"idle", "done"}
  \/ Done(p) /\ result[p].status \in {Ok, ErrValidation, ErrInsufficient, ErrStorage}

\* C20: a Credit reaches TransactionService only when the caller's role is
\* admin, a Debit only when the caller is admin or is the debited account, a
\* Transfer only when the caller is admin or is the source account; any other
\* request ends in the handler with an error response, opens no sql.Tx, uses no
\* transaction id and leaves balances, history and transaction records as they
\* were.
C20_OnlyPermittedForwarded ==
  \A p \in Procs :
    req[p].name \in {"Credit", "Debit", "Transfer"} =>
      /\ Forwarded(p) => req[p].decoded /\ MayMutate(req[p])
      /\ ~MayMutate(req[p]) =>
           /\ Done(p)
           /\ result[p].status \in {RespInvalidRequest, RespUnauthorized, RespForbidden}
           /\ result[p].transaction = NoTxn
           /\ ~tx[p].open /\ held[p] = {}
           /\ loc[p].transactionID = 0
           /\ quiet[p] => LedgerUnchanged(p) /\ DOMAIN balances = DOMAIN pre[p].balances

\* One worker's Debit of another user's account was refused with forbidden while
\* the other worker's Debit of its own account was forwarded and committed
C20_Witness ==
  \E p \in Procs : \E q \in Procs \ {p} :
    /\ req[p].name = "Debit" /\ req[p].decoded /\ req[p].caller.ok
    /\ req[p].caller.role = RoleUser /\ req[p].caller.user_id # req[p].user_id
    /\ Done(p) /\ result[p].status = RespForbidden
    /\ req[q].name = "Debit" /\ req[q].caller.role = RoleUser
    /\ req[q].caller.user_id = req[q].user_id
    /\ Done(q) /\ result[q].status = Ok

\* The calls of TransactionService that mutate balances
Orchestrated(p) == req[p].name \in {"Credit", "Debit", "Transfer", "Rollback"}

\* The accounts p's call mutates
Mutated(p) ==
  IF req[p].name = "Transfer" THEN {req[p].user_id, req[p].to_user_id}
  ELSE IF req[p].name = "Rollback" THEN Involved(loc[p].transaction)
  ELSE {req[p].user_id}

\* C21: while a Credit, Debit, Transfer or Rollback has its sql.Tx open it holds
\* the in-process mutex of every account it mutates, so no two of them that
\* mutate a common account have their sql.Tx open at the same time.
C21_GuardHeldAroundUnit ==
  \A p \in Procs :
    Orchestrated(p) /\ tx[p].open =>
      /\ \A a \in Mutated(p) : a \in DOMAIN mu /\ mu[a] = p
      /\ \A q \in Procs \ {p} :
           Orchestrated(q) /\ tx[q].open => Mutated(p) \cap Mutated(q) = {}

\* The consequence alone: no two such operations on a common account have their
\* sql.Tx open together
C21_UnitsExclusive ==
  \A p \in Procs : \A q \in Procs \ {p} :
    Orchestrated(p) /\ tx[p].open /\ Orchestrated(q) /\ tx[q].open
      => Mutated(p) \cap Mutated(q) = {}

\* The balance change a record stands for: credit +amount on the destination,
\* debit -amount on the source, transfer both
RecordDelta(t, a) ==
  (IF t.to_user_id = a THEN t.amount ELSE 0) - (IF t.from_user_id = a THEN t.amount ELSE 0)

\* No committed record is pending, and no call has read a pending record (a
\* rollback that reads one returns "only completed transactions can be rolled back")
NoPendingSeen ==
  /\ \A id \in DOMAIN transactions :
       transactions[id].status \in {TransactionStatusCompleted, TransactionStatusRolledBack}
  /\ \A p \in Procs :
       /\ loc[p].transaction.status # TransactionStatusPending
       /\ result[p].transaction.status # TransactionStatusPending
       /\ result[p].status # ErrInvalidState

\* A step that commits a new record commits it completed together with its
\* balance change
RecordCommitsWithBalances ==
  \A id \in DOMAIN transactions' \ DOMAIN transactions :
    /\ transactions'[id].status = TransactionStatusCompleted
    /\ \A a \in Accounts :
         BalanceOf(balances', a) = BalanceOf(balances, a) + RecordDelta(transactions'[id], a)

\* C22: the pending record, its move to completed and the balance mutation
\* commit together: every committed record is completed or rolled_back, no call
\* reads a pending record, and the step that makes a record visible makes its
\* balance change visible too.
C22_PendingNeverVisible == []NoPendingSeen /\ [][RecordCommitsWithBalances]_vars

\* A Transfer of this run committed and read its record back as completed
C22_Witness ==
  \E p \in Procs :
    /\ req[p].name = "Transfer" /\ Done(p) /\ result[p].status = Ok
    /\ result[p].transaction.status = TransactionStatusCompleted
    /\ result[p].transaction.id \notin DOMAIN pre[p].transactions
    /\ result[p].transaction.id \in DOMAIN transactions

\* p's Debit or Transfer passed the advisory check and was refused under the
\* row lock: it returned insufficient balance after inserting its record
RefusedUnderLock(p) ==
  /\ req[p].name \in {"Debit", "Transfer"}
  /\ Done(p) /\ result[p].status = ErrInsufficient
  /\ loc[p].transactionID # 0

\* After a refusal under the lock the pending record is not committed and the
\* sql.Tx is gone; no committed balance is negative
RefusedLeavesNothing ==
  /\ \A p \in Procs :
       RefusedUnderLock(p) =>
         /\ loc[p].transactionID \notin DOMAIN transactions
         /\ ~tx[p].open /\ tx[p] = NoTx /\ held[p] = {}
  /\ \A a \in DOMAIN balances : balances[a] >= 0

\* A step of p's Debit or Transfer between Begin and the UPDATE of the status,
\* the refusing step included, changes no committed row
UnitStepsInvisible ==
  \A p \in Procs :
    /\ req[p].name \in {"Debit", "Transfer"}
    /\ pc[p] \in {"begin", "insert_transaction", "updateBalanceInTx", "insert_balance", "set_status"}
    /\ (pc'[p] # pc[p] \/ tx'[p] # tx[p])
    => /\ balances' = balances
       /\ history' = history
       /\ transactions' = transactions

\* C23: a Debit or Transfer that passed the advisory check and finds
\* balance < amount under the row lock (a concurrent mutation committed first)
\* fails with insufficient balance; its pending record is not committed and it
\* changes no balance and no history; no overdraft is ever committed.
C23_AdvisoryCheckNotRelied == []RefusedLeavesNothing /\ [][UnitStepsInvisible]_vars

\* A Debit was refused under the lock after another worker's debit of the same
\* account committed since its advisory check
C23_Witness ==
  \E p \in Procs : \E q \in Procs \ {p} :
    /\ RefusedUnderLock(p) /\ req[p].name = "Debit"
    /\ ~PreCheckFails(BalanceOf(pre[p].balances, req[p].user_id), req[p].amount)
    /\ ~quiet[p]
    /\ req[q].name \in {"Debit", "Transfer"} /\ req[q].user_id = req[p].user_id
    /\ Done(q) /\ result[q].status = Ok
    /\ BalanceOf(balances, req[p].user_id) < req[p].amount

\* p's Rollback started on a completed credit or transfer whose destination
\* account held less than the transaction's amount
DestinationShort(p) ==
  /\ req[p].name = "Rollback"
  /\ req[p].id \in DOMAIN pre[p].transactions
  /\ LET t == pre[p].transactions[req[p].id] IN
       /\ t.status = TransactionStatusCompleted
       /\ t.type \in {TransactionTypeCredit, TransactionTypeTransfer}
       /\ BalanceOf(pre[p].balances, t.to_user_id) < t.amount

\* C24: Rollback of a completed credit or transfer whose destination holds less
\* than the amount (no other commit meanwhile, no storage failure) fails with
\* insufficient balance and commits nothing: every balance, the source of a
\* transfer included, the history and the records are unchanged, and the
\* transaction is still completed.
C24_RollbackRefusedWhenDestinationShort ==
  \A p \in Procs :
    Done(p) /\ DestinationShort(p) /\ quiet[p] /\ ~loc[p].faulted =>
      /\ result[p].status = ErrInsufficient
      /\ LedgerUnchanged(p)
      /\ DOMAIN balances = DOMAIN pre[p].balances
      /\ transactions[req[p].id].status = TransactionStatusCompleted
      /\ ~tx[p].open /\ held[p] = {}

\* The rollback of a transfer was refused because the receiver had spent the money
C24_Witness ==
  \E p \in Procs :
    /\ Done(p) /\ DestinationShort(p) /\ quiet[p]
    /\ pre[p].transactions[req[p].id].type = TransactionTypeTransfer
    /\ result[p].status = ErrInsufficient
    /\ transactions[req[p].id].status = TransactionStatusCompleted

\* The error the contract prescribes for a Rollback of the record t (NoTxn: no
\* such record) that must not proceed, "" when it may
Prescribed(t) ==
  IF t = NoTxn THEN ErrNotFound
  ELSE IF t.status \notin {TransactionStatusCompleted, TransactionStatusRolledBack}
    THEN ErrInvalidState
  ELSE ""

\* The record p's Rollback names, as it was when the call started
Named(p) ==
  IF req[p].id \in DOMAIN pre[p].transactions THEN pre[p].transactions[req[p].id] ELSE NoTxn

\* C25: Rollback(id) of an id with no record fails with "transaction not found",
\* of a record that is neither completed nor rolled_back with "only completed
\* transactions can be rolled back"; such a call never opens a sql.Tx, takes no
\* lock and changes no balance, no history entry and no record.
C25_RollbackRefusedOnMissingOrForeign ==
  \A p \in Procs :
    req[p].name = "Rollback" /\ Prescribed(Named(p)) # "" =>
      /\ pc[p] \in {"get_transaction", "done"}
      /\ ~tx[p].open /\ held[p] = {}
      /\ Done(p) => result[p].status = Prescribed(Named(p))
      /\ quiet[p] => LedgerUnchanged(p) /\ DOMAIN balances = DOMAIN pre[p].balances

\* One Rollback was refused for a missing record and one for a pending or failed one
C25_Witness ==
  \E p \in Procs : \E q \in Procs \ {p} :
    /\ req[p].name = "Rollback" /\ Done(p) /\ Named(p) = NoTxn
    /\ result[p].status = ErrNotFound
    /\ req[q].name = "Rollback" /\ Done(q) /\ Named(q) # NoTxn
    /\ Named(q).status \in ForeignStatuses
    /\ result[q].status = ErrInvalidState

\* p's UpdateBalance started on an account that had no balance row
OnAbsentRow(p) ==
  /\ req[p].name = "UpdateBalance"
  /\ req[p].user_id \notin DOMAIN pre[p].balances

\* C26: updateBalanceInTx on an account with no balance row (no other commit
\* meanwhile, no storage failure, no lock wait that the database ended with an
\* error) takes the current balance as 0: with
\* delta >= 0 it creates the row with amount = delta and appends one history
\* entry with balance = delta and change_amount = delta; with delta < 0 it fails
\* with insufficient balance and creates neither a row nor a history entry.
C26_DeltaOnAbsentRow ==
  \A p \in Procs :
    ( /\ Done(p) /\ OnAbsentRow(p) /\ quiet[p] /\ ~loc[p].faulted
      /\ result[p].status # ErrStorage ) =>
      LET a == req[p].user_id
          delta == req[p].amount
      IN  IF delta >= 0
            THEN /\ result[p].status = Ok
                 /\ a \in DOMAIN balances /\ balances[a] = delta
                 /\ Len(history) = Len(pre[p].history) + 1
                 /\ SubSeq(history, 1, Len(pre[p].history)) = pre[p].history
                 /\ history[Len(history)].user_id = a
                 /\ history[Len(history)].balance = delta
                 /\ history[Len(history)].change_amount = delta
                 /\ \A b \in Accounts \ {a} : BalanceOf(balances, b) = BalanceOf(pre[p].balances, b)
                 /\ DOMAIN balances = DOMAIN pre[p].balances \cup {a}
            ELSE /\ result[p].status = ErrInsufficient
                 /\ balances = pre[p].balances
                 /\ history = pre[p].history

\* One UpdateBalance created a row with a positive delta and another, on another
\* absent account, was refused with a negative delta
C26_Witness ==
  \E p \in Procs : \E q \in Procs \ {p} :
    /\ Done(p) /\ OnAbsentRow(p) /\ req[p].amount > 0 /\ result[p].status = Ok
    /\ balances[req[p].user_id] = req[p].amount
    /\ Done(q) /\ OnAbsentRow(q) /\ req[q].amount < 0 /\ quiet[q]
    /\ result[q].status = ErrInsufficient
    /\ req[q].user_id \notin DOMAIN balances

\* The history entries of account a, in commit order
EntriesOf(h, a) ==
  LET Of(e) == e.user_id = a IN SelectSeq(h, Of)

\* Every entry's balance is the previous entry's balance plus its own change
Chained(h) ==
  \A i \in 1..Len(h) :
    h[i].balance = (IF i = 1 THEN 0 ELSE h[i - 1].balance) + h[i].change_amount

\* Inside a sql.Tx that lost no append: one entry per balance write, carrying
\* the account, the delta and the balance written
OneEntryPerWrite(p) ==
  /\ Len(tx[p].hist) = Len(tx[p].deltas)
  /\ \A i \in 1..Len(tx[p].hist) :
       /\ tx[p].hist[i].user_id = tx[p].deltas[i][1]
       /\ tx[p].hist[i].change_amount = tx[p].deltas[i][2]
       /\ tx[p].hist[i].balance = tx[p].bal[tx[p].deltas[i][1]]

\* C27: every updateBalanceInTx that returns nil appends exactly one history
\* entry whose balance is the balance it wrote and whose change_amount is the
\* delta; so, while no append has failed, each account's entries in commit order
\* form a chain: balance = previous balance + change_amount, the first entry's
\* balance being its change_amount.
C27_HistoryChained ==
  /\ \A p \in Procs : tx[p].open /\ ~loc[p].faulted => OneEntryPerWrite(p)
  /\ dropped = 0 => \A a \in Accounts : Chained(EntriesOf(history, a))

\* An account with at least three committed entries, one written by a transfer
\* of this run, and no append lost
C27_Witness ==
  /\ dropped = 0
  /\ \E a \in Accounts :
       /\ Len(EntriesOf(history, a)) >= 3
       /\ \E i \in 1..Len(EntriesOf(history, a)) : EntriesOf(history, a)[i].change_amount < 0
  /\ \E p \in Procs : req[p].name = "Transfer" /\ Done(p) /\ result[p].status = Ok

\* Stored balance minus the sum of the history's changes, for account a
Gap(b, h, a) == BalanceOf(b, a) - SumChanges(h, a)

\* The deltas of p's sql.Tx whose history row is missing, summed for account a
Unrecorded(p, a) == SumFor(tx[p].deltas, a) - SumChanges(tx[p].hist, a)

\* The step in which a history append fails does not end the call: the balance
\* write stays in the open sql.Tx, no history row is added, and the call goes on
\* to its next statement
AppendFailureSwallowed ==
  dropped' # dropped =>
    \E p \in Procs :
      /\ pc[p] \in {"updateBalanceInTx", "insert_balance"}
      /\ tx'[p] # tx[p]
      /\ tx'[p].open
      /\ pc'[p] \in {"updateBalanceInTx", "set_status", "commit"}
      /\ tx'[p].hist = tx[p].hist
      /\ Len(tx'[p].deltas) = Len(tx[p].deltas) + 1
      /\ LET a == Head(loc[p].plan)[1]
             delta == Head(loc[p].plan)[2]
         IN  /\ tx'[p].deltas[Len(tx'[p].deltas)] = <<a, delta>>
             /\ tx'[p].bal[a] = BalanceOf(BalanceView(p), a) + delta

\* A successful Commit publishes every balance write and the record of its
\* sql.Tx, and widens each account's gap by exactly the unrecorded deltas
CommitKeepsUnrecorded ==
  \A p \in Procs :
    pc[p] = "commit" /\ pc'[p] # "commit" /\ result'[p].status # ErrStorage =>
      /\ \A a \in Accounts :
           /\ BalanceOf(balances', a) = BalanceOf(balances, a) + SumFor(tx[p].deltas, a)
           /\ Gap(balances', history', a) = Gap(balances, history, a) + Unrecorded(p, a)
      /\ \A id \in DOMAIN tx[p].txn : id \in DOMAIN transactions' /\ transactions'[id] = tx[p].txn[id]

\* A call whose only failure was a history append returned success (a Transfer
\* that lost the append of its source may still be ended at its destination by
\* a concurrent call: the lock cycle with an opposite Transfer or Rollback, or
\* with a call whose locking read found the destination's row missing as well)
LostAppendStillSucceeds ==
  \A p \in Procs :
    /\ Done(p) /\ loc[p].faulted /\ faults = 1 /\ dropped = 1
    /\ req[p].name \in {"Credit", "Debit", "Transfer", "UpdateBalance"}
    => \/ /\ result[p].status = Ok
          /\ req[p].name # "UpdateBalance" =>
               /\ result[p].transaction.id = loc[p].transactionID
               /\ result[p].transaction.id \in DOMAIN transactions
       \/ /\ req[p].name = "Transfer" /\ result[p].status = ErrStorage
          /\ \E q \in Procs \ {p} : req[q].name # ""

\* C28: a failed history append inside updateBalanceInTx is not propagated: the
\* call goes on, commits the balance change and the transaction record and
\* returns success, and the commit leaves the stored balance away from the sum
\* of the history's changes by exactly the delta that was not recorded.
C28_HistoryFailureNotPropagated ==
  /\ []LostAppendStillSucceeds
  /\ [][AppendFailureSwallowed]_vars
  /\ [][CommitKeepsUnrecorded]_vars

\* A Debit lost its history append, returned success with a completed record,
\* and the account's balance is the history sum minus the debited amount
C28_Witness ==
  \E p \in Procs :
    /\ req[p].name = "Debit" /\ Done(p) /\ loc[p].faulted /\ dropped = 1
    /\ result[p].status = Ok
    /\ result[p].transaction.status = TransactionStatusCompleted
    /\ Gap(balances, history, req[p].user_id) = -req[p].amount
    /\ BalanceOf(balances, req[p].user_id) = BalanceOf(pre[p].balances, req[p].user_id) - req[p].amount

\* C29: a ReconcileBalance that finds a mismatch and logs the warning returns
\* nil and, with no other commit meanwhile, leaves every balance amount, the
\* history and the records as they were: the account's balance still differs
\* from the sum of its history changes by the same amount.
C29_ReconcileDoesNotCorrect ==
  \A p \in Procs :
    Done(p) /\ req[p].name = "ReconcileBalance" /\ Warned(p, req[p].user_id) =>
      /\ result[p].status = Ok
      /\ quiet[p] =>
           /\ LedgerUnchanged(p)
           /\ DOMAIN balances = DOMAIN pre[p].balances
           /\ Gap(balances, history, req[p].user_id) # 0
           /\ Gap(balances, history, req[p].user_id)
                = Gap(pre[p].balances, pre[p].history, req[p].user_id)

\* A reconcile warned about an account whose history lost an append, returned
\* nil, and the drift is still there
C29_Witness ==
  \E p \in Procs :
    /\ Done(p) /\ req[p].name = "ReconcileBalance" /\ Warned(p, req[p].user_id)
    /\ quiet[p] /\ result[p].status = Ok /\ dropped > 0
    /\ Gap(balances, history, req[p].user_id) # 0

\* The operations of the balance reader and the record lookup
Readers ==
  {"GetBalance", "GetBalanceHistory", "GetBalanceAtTime", "ReconcileBalance", "GetTransactionByID"}

\* A step of a reader call, its first included, leaves every history entry,
\* every record and every existing balance row as it is, opens no sql.Tx and
\* takes no lock; a balance row it adds is a zero row of the account it reads
ReaderStep ==
  \A p \in Procs :
    pc'[p] # pc[p] /\ req'[p].name \in Readers =>
      /\ history' = history
      /\ transactions' = transactions
      /\ nextId' = nextId
      /\ \A a \in DOMAIN balances : a \in DOMAIN balances' /\ balances'[a] = balances[a]
      /\ \A a \in DOMAIN balances' \ DOMAIN balances :
           /\ balances'[a] = 0
           /\ a = req[p].user_id
           /\ req[p].name \in {"GetBalance", "ReconcileBalance"}
      /\ tx' = tx /\ held' = held /\ mu' = mu

\* C30: GetBalance, GetBalanceHistory, GetBalanceAtTime, ReconcileBalance and
\* GetTransactionByID never change the amount of an existing balance row, a
\* history entry or a transaction record; the only change any of them makes is
\* a new balance row with amount 0 for an account that had none.
C30_ReadersOnlyInitialise == [][ReaderStep]_vars

\* A GetBalance created the zero row of an absent account, a GetBalanceHistory
\* returned rows, and everything committed before is as it was
C30_Witness ==
  \E p \in Procs : \E q \in Procs \ {p} :
    /\ Done(p) /\ req[p].name = "GetBalance" /\ result[p].status = Ok
    /\ req[p].user_id \notin DOMAIN pre[p].balances
    /\ req[p].user_id \in DOMAIN balances /\ balances[req[p].user_id] = 0
    /\ Done(q) /\ req[q].name = "GetBalanceHistory" /\ result[q].status = Ok
    /\ Len(result[q].rows) >= 1
    /\ history = pre[p].history /\ transactions = pre[p].transactions

\* Every committed record stays, with every column but status as it is
RecordsKeepColumns ==
  \A id \in DOMAIN transactions :
    /\ id \in DOMAIN transactions'
    /\ transactions'[id].id = transactions[id].id
    /\ transactions'[id].from_user_id = transactions[id].from_user_id
    /\ transactions'[id].to_user_id = transactions[id].to_user_id
    /\ transactions'[id].amount = transactions[id].amount
    /\ transactions'[id].type = transactions[id].type
    /\ transactions'[id].created_at = transactions[id].created_at

\* C31: once a transaction record is committed, no step of any operation
\* changes its id, source, destination, amount, type or created_at, and no step
\* removes it; status is the only column that changes.
C31_RecordColumnsImmutable == [][RecordsKeepColumns]_vars

\* A record was rolled back in a later second than the one it was created in
C31_Witness ==
  \E id \in DOMAIN transactions :
    /\ transactions[id].status = TransactionStatusRolledBack
    /\ transactions[id].created_at < clock
    /\ \E p \in Procs : /\ Done(p) /\ req[p].name = "Rollback" /\ req[p].id = id
                        /\ result[p].status = Ok
                        /\ pre[p].transactions[id].status = TransactionStatusCompleted

RECURSIVE CompletedSum(_, _, _)
\* The sum, over the records ids of txns that are completed, of what each stands
\* for on account a: +amount as destination, -amount as source
CompletedSum(txns, ids, a) ==
  IF ids = {} THEN 0
  ELSE LET id == CHOOSE i \in ids : TRUE
       IN  (IF txns[id].status = TransactionStatusCompleted THEN RecordDelta(txns[id], a) ELSE 0)
             + CompletedSum(txns, ids \ {id}, a)

\* C32: in every committed state reached from empty tables by Credit, Debit,
\* Transfer and Rollback calls in any interleaving, each account's balance is the
\* sum of the amounts of the completed transactions with it as destination minus
\* the sum of those with it as source; rolled-back transactions contribute nothing.
C32_LedgerAccounting ==
  \A a \in Accounts :
    BalanceOf(balances, a) = CompletedSum(transactions, DOMAIN transactions, a)

RECURSIVE TotalOver(_, _)
\* The sum of the amounts of the balance rows of the accounts as
TotalOver(b, as) ==
  IF as = {} THEN 0
  ELSE LET a == CHOOSE x \in as : TRUE IN b[a] + TotalOver(b, as \ {a})

\* The sum of all account balances
Total(b) == TotalOver(b, DOMAIN b)

\* p's step commits the unit of work of its call
Commits(p) ==
  /\ pc[p] = "commit"
  /\ pc'[p] = "read_back" \/ (pc'[p] = "done" /\ result'[p].status = Ok)

\* What the committed unit of work of p's call does to the sum of all balances:
\* +amount for a credit, -amount for a debit, nothing for a transfer and for the
\* rollback of a transfer
FundsChange(p, d) ==
  CASE req[p].name = "Credit" -> d = req[p].amount
    [] req[p].name = "Debit" -> d = -req[p].amount
    [] req[p].name = "Transfer" -> d = 0
    [] req[p].name = "Rollback" ->
         loc[p].transaction.type = TransactionTypeTransfer => d = 0
    [] OTHER -> TRUE

\* A step of a Credit, Debit, Transfer or Rollback call changes the sum of all
\* balances only by committing, then by what its operation stands for; and a
\* call that has committed returns success
FundsStep ==
  \A p \in Procs :
    (pc'[p] # pc[p] /\ req[p].name \in {"Credit", "Debit", "Transfer", "Rollback"}) =>
      LET d == Total(balances') - Total(balances)
      IN  /\ IF Commits(p) THEN FundsChange(p, d) ELSE d = 0
          /\ pc[p] = "read_back" => result'[p].status = Ok

\* C33: a successful Transfer and a successful Rollback of a transfer leave the
\* sum of all balances unchanged, a successful Credit adds exactly its amount to
\* it and a successful Debit takes exactly its amount from it; an operation that
\* fails leaves the sum unchanged.
C33_FundsConserved == [][FundsStep]_vars

\* p's call is a first access of account a: a GetBalance or a valid Credit that
\* started while a had no balance row
FirstAccess(p, a) ==
  /\ req[p].name \in {"GetBalance", "Credit"}
  /\ req[p].user_id = a
  /\ a \notin DOMAIN pre[p].balances
  /\ ~Invalid(req[p])

\* C34: when two workers make concurrent first accesses of an account with no
\* balance row (two GetBalance calls, a GetBalance and a Credit, or two Credits)
\* and the storage fails no statement of theirs, the account ends with its one
\* balance row and both calls return success: neither fails because the other
\* created the row first.
C34_ConcurrentFirstAccess ==
  \A a \in Accounts : \A p \in Procs : \A q \in Procs \ {p} :
    ( /\ FirstAccess(p, a) /\ FirstAccess(q, a)
      /\ Done(p) /\ Done(q)
      /\ ~loc[p].faulted /\ ~loc[q].faulted )
    => /\ a \in DOMAIN balances
       /\ result[p].status = Ok
       /\ result[q].status = Ok

\* C35: a Credit, Debit or Transfer that returns success returns the record it
\* created, with the accounts, amount and type of its request and with status
\* completed, whatever other calls run concurrently with it, a Rollback of that
\* same transaction id included.
C35_ReturnsCompletedRecord ==
  \A p \in Procs :
    (Done(p) /\ req[p].name \in {"Credit", "Debit", "Transfer"} /\ result[p].status = Ok)
    => /\ result[p].transaction.id = loc[p].transactionID
       /\ result[p].transaction.id \in DOMAIN transactions
       /\ [result[p].transaction EXCEPT !.status = TransactionStatusPending, !.created_at = 0]
            = NewTransaction(req[p], loc[p].transactionID)
       /\ result[p].transaction.status = TransactionStatusCompleted

\* C36: with fair scheduling and no storage failure, every Credit, Debit,
\* Transfer and Rollback call that has started eventually returns, whatever the
\* other worker runs, a Transfer B -> A or a Rollback of a transfer B -> A
\* against a Rollback of a transfer A -> B included.
C36_EveryCallReturns ==
  \A p \in Procs : (pc[p] \notin {"idle", "done"}) ~> (pc[p] = "done")

\* Two rollbacks of opposite transfers, or a rollback of a transfer and the
\* opposite transfer, have both returned, one of them as the victim of the lock
\* cycle
C36_Witness ==
  \E p \in Procs : \E q \in Procs \ {p} :
    /\ Done(p) /\ Done(q)
    /\ req[p].name = "Rollback" /\ req[p].id \in DOMAIN transactions
    /\ transactions[req[p].id].type = TransactionTypeTransfer
    /\ req[q].name = "Rollback" /\ req[q].id \in DOMAIN transactions
    /\ transactions[req[q].id].type = TransactionTypeTransfer
    /\ transactions[req[q].id].from_user_id = transactions[req[p].id].to_user_id
    /\ transactions[req[q].id].to_user_id = transactions[req[p].id].from_user_id
    /\ result[p].status = ErrStorage /\ result[q].status = Ok

\* A ReconcileBalance that logs a discrepancy for its account does so while the
\* stored balance and the sum of the history's changes differ in the committed
\* rows, or after they differed in the committed rows at the start of the call
ReconcileWarnsOnRealDrift ==
  \A p \in Procs :
    (pc[p] = "calculate" /\ pc'[p] # pc[p] /\ Len(log') > Len(log)) =>
      LET a == req[p].user_id
      IN  \/ Gap(balances, history, a) # 0
          \/ Gap(pre[p].balances, pre[p].history, a) # 0

\* C37: ReconcileBalance reports a mismatch only if the stored balance and the
\* sum of the history's changes really differ in a committed state; a mutation
\* of the account that commits between its read of the balance and its read of
\* the history sum never makes it report one.
C37_ReconcileReportsOnlyRealDrift == [][ReconcileWarnsOnRealDrift]_vars

\* C38: the GetTransaction handler returns a record to a caller who is not admin
\* only when the caller is the record's source or its destination; for any other
\* record, the credits and debits of other accounts included, such a caller gets
\* the forbidden response.
C38_OnlyOwnTransactionsShown ==
  \A p \in Procs :
    ( /\ Done(p) /\ req[p].name = "GetTransaction" /\ req[p].decoded
      /\ req[p].caller.ok /\ req[p].caller.role # RoleAdmin
      /\ req[p].id \in DOMAIN transactions )
    => LET t == transactions[req[p].id]
           own == req[p].caller.user_id \in Involved(t)
       IN  /\ result[p].status = Ok => own /\ result[p].transaction = t
           /\ ~own => result[p].status = RespForbidden /\ result[p].transaction = NoTxn

====
